---- MODULE Spec2Model ----
(***************************************************************************)
(* Tenant provisioning and lifecycle orchestration of pix_one.             *)
(*                                                                         *)
(* The record store (SaaS Company rows, the subscription), the background  *)
(* job queue, the running provisioning jobs, the bench sites directory and *)
(* the live `bench new-site` processes are the state.  Every whitelisted   *)
(* endpoint and every step of the provisioning job between two external    *)
(* commands is one action.  Request handlers that read, then write after   *)
(* a commit, are split at the commit so that two requests can interleave   *)
(* as two web workers do.                                                  *)
(***************************************************************************)
EXTENDS Integers, Sequences, FiniteSets, TLC

\* ------------------------------------------------------------------------
\* Bounds of the model
\* ------------------------------------------------------------------------
MaxTenants == 2
MaxJobs == 2
MaxReq == 2
MaxQueueErrors == 1
MaxCalls == 2
MaxBackupJobs == 3

\* ------------------------------------------------------------------------
\* Program constants
\* ------------------------------------------------------------------------
MinSubdomainLen == 3
MaxSubdomainLen == 63
MinCompanyNameLen == 3
\* PixOne System Settings.max_subdomain_length (63 when not set)
SettingsMaxLen == 63
\* _generate_suggestions: range(1, 100) and the default of n
MaxNumericSuffix == 99
DefaultSuggestions == 5

\* ------------------------------------------------------------------------
\* Slugs: strings are sequences of one-character strings
\* ------------------------------------------------------------------------
LowerLetters ==
    {"a","b","c","d","e","f","g","h","i","j","k","l","m",
     "n","o","p","q","r","s","t","u","v","w","x","y","z"}

Digits == {"0","1","2","3","4","5","6","7","8","9"}

AlnumChars == LowerLetters \cup Digits

UpperToLower ==
    [c \in {"A","B","C","D","E","M"} |->
        CASE c = "A" -> "a" [] c = "B" -> "b" [] c = "C" -> "c"
          [] c = "D" -> "d" [] c = "E" -> "e" [] OTHER -> "m"]

\* str.lower()
Lower(s) == [i \in 1..Len(s) |-> IF s[i] \in DOMAIN UpperToLower THEN UpperToLower[s[i]] ELSE s[i]]

RECURSIVE LStrip(_)
LStrip(s) == IF s # <<>> /\ Head(s) = " " THEN LStrip(Tail(s)) ELSE s

RECURSIVE RStrip(_)
RStrip(s) == IF s # <<>> /\ s[Len(s)] = " " THEN RStrip(SubSeq(s, 1, Len(s) - 1)) ELSE s

\* str.strip()
Strip(s) == RStrip(LStrip(s))

\* (subdomain or "").strip().lower()
Normalise(s) == Lower(Strip(s))

\* re.match(r'^[a-z0-9]([a-z0-9-]{0,61}[a-z0-9])?$', slug)
_SUBDOMAIN_RE(slug) ==
    /\ Len(slug) >= 1
    /\ Len(slug) <= 63
    /\ slug[1] \in AlnumChars
    /\ slug[Len(slug)] \in AlnumChars
    /\ \A i \in 1..Len(slug) : slug[i] \in AlnumChars \cup {"-"}

\* the entries of _BUILTIN_RESERVED that the inputs of this model can hit
_BUILTIN_RESERVED ==
    { <<"w","w","w">>, <<"a","p","i">>, <<"a","p","p">>,
      <<"a","d","m","i","n">>, <<"d","e","v">>, <<"t","e","s","t">>,
      <<"p","o","p">>, <<"p","o","p","3">> }

\* operator-configured extension (PixOne System Settings.reserved_subdomains)
ExtraReserved == { }

BaseDomain == "pixone.com"

\* f"{slug}.{base_domain}"
SiteName(slug) == <<slug, BaseDomain>>

GoodName == <<"A","c","m","e"," ","L","t","d">>

Acme == <<"a","c","m","e">>
Beta == <<"b","e","t","a">>

\* what a caller may send as `subdomain`
SlugInputs ==
    { Acme, Beta, <<" ","A","c","m","e">>, <<"a","d","m","i","n">> }

Slugs == { Normalise(s) : s \in SlugInputs }

Sites == { SiteName(s) : s \in Slugs }

\* what a caller may send as `company_name`
NameInputs == { GoodName, <<" ","a","b"," ">> }

\* what a caller may send as `apps_to_install`
AppInputs == { <<"hrms", "erpnext">> }

\* values of SaaS Subscription Plan.max_companies (0: not set)
PlanMaxInputs == {0, 2}

\* ------------------------------------------------------------------------
\* Status domains
\* ------------------------------------------------------------------------
CompanyStatus == {"Draft", "Queued", "Provisioning", "Active", "Failed", "Suspended", "Deleted"}

SiteStatus == {"None", "Queued", "Creating", "Active", "Renaming", "Deleted"}

SubscriptionStatus == {"Active", "Expired"}

\* the status filter ["not in", ["Deleted", "Failed"]]
NotLive == {"Deleted", "Failed"}

SUB1 == "SUB-0001"

SUB2 == "SUB-0002"

SUB3 == "SUB-0003"

\* the subscription of the provisioning model
Subscriptions == {SUB1}

\* the subscriptions of the subscription-resolution model
AllSubscriptions == {SUB1, SUB2, SUB3}

\* what a caller may send as `subscription_id` ("" stands for None)
SubInputs == {"", SUB1}

USER1 == "owner@example.com"

USER2 == "other@example.com"

LockPhrase == "Lock bench_new_site could not be acquired"

LockConflictMsg == "Site creation lock conflict. Please retry."

\* the Administrator password of the site and the MariaDB root password
AdminPassword == "s3cret-admin-password"

DbRootPassword == "s3cret-db-root-password"

\* the words of the `bench new-site` command line built at lines 133-140
CreateCmdLine ==
    <<"bench new-site", "--admin-password", AdminPassword,
      "--db-root-username", "root", "--db-root-password", DbRootPassword, "--force">>

\* the words of the `bench install-app` command line built at line 172
InstallCmdLine(app) == <<"bench install-app", app>>

\* str(subprocess.TimeoutExpired): "Command '<cmd>' timed out after 300 seconds"
TimeoutText(cmd) == <<"Command">> \o cmd \o <<"timed out after 300 seconds">>

\* ------------------------------------------------------------------------
\* State
\* ------------------------------------------------------------------------
VARIABLES
    companies,      \* SaaS Company rows: [id -> record], ids from the naming series
    nextId,         \* next value of the naming series
    subStatus,      \* SaaS Subscriptions.status: [subscription -> status]
    planMax,        \* max_companies of the plan of each subscription (0: not set)
    queue,          \* the "long" queue: provisioning jobs not yet picked up
    running,        \* provisioning jobs a worker is executing
    nextJob,        \* number of the next job to be enqueued (also the logical clock)
    sites,          \* bench sites directory: [site -> [exists, installed, lock]]
    procs,          \* live `bench new-site` processes: <<job id, site>>
    queueErrors,    \* number of frappe.enqueue calls that raised so far
    req,            \* request handlers between two commits
    resp,           \* in flight: the response of a create or retry request, or the notification of a job
    settings,       \* PixOne System Settings: [max_len, reserved]
    call,           \* the last call of check_subdomain or _validate_subscription and what it returned
    backups,        \* SaaS Site Backup rows, in the order of their naming series
    cache           \* the Redis cache: [app_install:<job id> -> progress record]

\* the state the provisioning endpoints and jobs leave alone
serviceVars == <<settings, call, backups, cache>>

vars == <<companies, nextId, subStatus, planMax, queue, running, nextJob, queueErrors, sites, procs, req, resp,
          settings, call, backups, cache>>

\* _get_settings() when PixOne System Settings sets nothing
DefaultSettings == [max_len |-> SettingsMaxLen, reserved |-> ExtraReserved]

\* third component of _get_settings()
ReservedSet == _BUILTIN_RESERVED \cup settings.reserved

NoCall == [fn |-> "none", seq |-> 0]

Idle == [op |-> "idle"]

NoResp == [op |-> "none", cid |-> 0, result |-> "none", reason |-> "none"]

Resp(op, cid, result, reason) == [op |-> op, cid |-> cid, result |-> result, reason |-> reason]

NoSite == [exists |-> FALSE, installed |-> FALSE, lock |-> FALSE]

Ids == DOMAIN companies

\* frappe.db.count("SaaS Company", {"subscription_id": sub, "status": ["not in", [...]]})
LiveCount(sub) ==
    Cardinality({ c \in Ids : companies[c].subscription_id = sub
                              /\ companies[c].status \notin NotLive })

\* doc.db_set(...) / frappe.db.set_value(...): an UPDATE that touches no row
\* when the record has been removed
DbSet(cs, cid, upd) ==
    IF cid \in DOMAIN cs
    THEN [cs EXCEPT ![cid] = [f \in DOMAIN cs[cid] |-> IF f \in DOMAIN upd THEN upd[f] ELSE cs[cid][f]]]
    ELSE cs

\* logical time: the number of jobs enqueued so far orders the timestamps
Now == nextJob

Init ==
    /\ companies = << >>
    /\ nextId = 1
    /\ subStatus = [s \in Subscriptions |-> "Active"]
    /\ planMax \in [Subscriptions -> PlanMaxInputs]
    /\ queue = << >>
    /\ running = {}
    /\ nextJob = 1
    /\ queueErrors = 0
    /\ sites = [s \in Sites |-> NoSite]
    /\ procs = {}
    /\ req = [r \in 1..MaxReq |-> Idle]
    /\ resp = NoResp
    /\ settings = DefaultSettings
    /\ call = NoCall
    /\ backups = << >>
    /\ cache = << >>

\* ------------------------------------------------------------------------
\* Validation (create_companies_service.py)
\* ------------------------------------------------------------------------

\* frappe.db.exists("SaaS Company", {"subdomain": slug, "status": ["not in", ["Deleted", "Failed"]]})
SubdomainTaken(slug) ==
    \E c \in Ids : companies[c].subdomain = slug /\ companies[c].status \notin NotLive

\* the reserved list is not consulted
ValidateSubdomainIgnoringReserved(subdomain) ==
    LET slug == Normalise(subdomain) IN
    IF Len(slug) < MinSubdomainLen THEN "too_short"
    ELSE IF Len(slug) > MaxSubdomainLen THEN "too_long"
    ELSE IF ~ _SUBDOMAIN_RE(slug) THEN "invalid_format"
    ELSE IF SubdomainTaken(slug) THEN "taken"
    ELSE "ok"

\* _validate_subdomain: "ok" or the reason of the first failing check
_validate_subdomain(subdomain) ==
    LET slug == Normalise(subdomain) IN
    IF Len(slug) < MinSubdomainLen THEN "too_short"
    ELSE IF Len(slug) > MaxSubdomainLen THEN "too_long"
    ELSE IF ~ _SUBDOMAIN_RE(slug) THEN "invalid_format"
    ELSE IF slug \in ReservedSet THEN "reserved"
    ELSE IF SubdomainTaken(slug) THEN "taken"
    ELSE "ok"

\* domain_service._is_taken
_is_taken(slug) ==
    \E c \in Ids : companies[c].subdomain = slug /\ companies[c].status \notin NotLive

\* str(i) for 1 <= i <= 99
DigitSeq == <<"0","1","2","3","4","5","6","7","8","9">>

IntToStr(i) == IF i < 10 THEN <<DigitSeq[i + 1]>> ELSE <<DigitSeq[(i \div 10) + 1], DigitSeq[(i % 10) + 1]>>

\* _slugify on the characters of this model: lowercase, drop what is not
\* [a-z0-9\s-], collapse runs of spaces and hyphens into one hyphen, strip hyphens
RECURSIVE CollapseSeparators(_)
CollapseSeparators(s) ==
    IF s = << >> THEN << >>
    ELSE IF Head(s) \in {" ", "-"}
         THEN IF Tail(s) # << >> /\ Head(Tail(s)) \in {" ", "-"}
              THEN CollapseSeparators(Tail(s))
              ELSE <<"-">> \o CollapseSeparators(Tail(s))
         ELSE <<Head(s)>> \o CollapseSeparators(Tail(s))

RECURSIVE StripHyphens(_)
StripHyphens(s) ==
    IF s # << >> /\ Head(s) = "-" THEN StripHyphens(Tail(s))
    ELSE IF s # << >> /\ s[Len(s)] = "-" THEN StripHyphens(SubSeq(s, 1, Len(s) - 1))
    ELSE s

_slugify(text) ==
    StripHyphens(CollapseSeparators(
        SelectSeq(Lower(text), LAMBDA c : c \in AlnumChars \cup {" ", "-"})))

\* the qualifier list of _generate_suggestions, line 121
qualifiers ==
    << <<"h","q">>, <<"e","r","p">>, <<"a","p","p">>, <<"g","o">>, <<"i","o">>,
       <<"h","u","b">>, <<"c","o","r","p">>, <<"b","i","z">>, <<"b","d">>, <<"0","1">> >>

\* lines 124-132: numeric suffixes 1..99, then the qualifiers that fit max_len
SuggestionCandidates(base_slug) ==
    [i \in 1..MaxNumericSuffix |-> base_slug \o IntToStr(i)]
    \o SelectSeq([k \in 1..Len(qualifiers) |-> base_slug \o <<"-">> \o qualifiers[k]],
                 LAMBDA c : Len(c) <= settings.max_len)

\* a candidate held by a tenant is suggested all the same
CandidateOkIgnoringTaken(candidate) ==
    /\ Len(candidate) >= MinSubdomainLen
    /\ Len(candidate) <= settings.max_len
    /\ _SUBDOMAIN_RE(candidate)
    /\ candidate \notin ReservedSet

\* lines 137-143: the test a candidate passes to be suggested
CandidateOk(candidate) ==
    /\ Len(candidate) >= MinSubdomainLen
    /\ Len(candidate) <= settings.max_len
    /\ _SUBDOMAIN_RE(candidate)
    /\ candidate \notin ReservedSet
    /\ ~ _is_taken(candidate)

\* the first n elements of a sequence
Take(seq, n) == SubSeq(seq, 1, IF Len(seq) < n THEN Len(seq) ELSE n)

\* the candidates are tried from the last to the first
SuggestFromLast(base_slug, n) ==
    LET cands == SuggestionCandidates(base_slug)
        reversed == [k \in 1..Len(cands) |-> cands[Len(cands) + 1 - k]]
    IN  Take(SelectSeq(reversed, CandidateOk), n)

\* _generate_suggestions: the first n candidates, in order, that pass the test
_generate_suggestions(base_slug, n) ==
    Take(SelectSeq(SuggestionCandidates(base_slug), CandidateOk), n)

CheckResult(available, reason, suggestions) ==
    [available |-> available, reason |-> reason, suggestions |-> suggestions]

\* the reserved check comes after the uniqueness check, and a too short slug is
\* answered with suggestions
CheckSubdomainReordered(subdomain) ==
    LET slug == Normalise(subdomain) IN
    IF Len(slug) < MinSubdomainLen
    THEN CheckResult(FALSE, "too_short", _generate_suggestions(slug, DefaultSuggestions))
    ELSE IF Len(slug) > settings.max_len THEN CheckResult(FALSE, "too_long", << >>)
    ELSE IF ~ _SUBDOMAIN_RE(slug)
    THEN CheckResult(FALSE, "invalid_format", _generate_suggestions(_slugify(subdomain), DefaultSuggestions))
    ELSE IF _is_taken(slug)
    THEN CheckResult(FALSE, "taken", _generate_suggestions(slug, DefaultSuggestions))
    ELSE IF slug \in ReservedSet
    THEN CheckResult(FALSE, "reserved", _generate_suggestions(slug, DefaultSuggestions))
    ELSE CheckResult(TRUE, "none", << >>)

\* domain_service.check_subdomain: the data of the response ("none": reason null)
check_subdomain(subdomain) ==
    LET slug == Normalise(subdomain) IN
    IF Len(slug) < MinSubdomainLen THEN CheckResult(FALSE, "too_short", << >>)
    ELSE IF Len(slug) > settings.max_len THEN CheckResult(FALSE, "too_long", << >>)
    ELSE IF ~ _SUBDOMAIN_RE(slug)
    THEN CheckResult(FALSE, "invalid_format", _generate_suggestions(_slugify(subdomain), DefaultSuggestions))
    ELSE IF slug \in ReservedSet
    THEN CheckResult(FALSE, "reserved", _generate_suggestions(slug, DefaultSuggestions))
    ELSE IF _is_taken(slug)
    THEN CheckResult(FALSE, "taken", _generate_suggestions(slug, DefaultSuggestions))
    ELSE CheckResult(TRUE, "none", << >>)

\* SaaS Subscriptions.customer_id
SubOwner == [s \in AllSubscriptions |-> IF s = SUB3 THEN USER2 ELSE USER1]

\* SaaS Subscriptions.creation, as a rank: SUB1 is the oldest
SubCreated == [s \in AllSubscriptions |-> CASE s = SUB1 -> 1 [] s = SUB2 -> 2 [] OTHER -> 3]

\* with no id given, the oldest Active subscription is selected
ValidateSubscriptionOldest(user_id, subscription_id) ==
    IF subscription_id # ""
    THEN IF subscription_id \notin DOMAIN subStatus THEN <<"not_found", "">>
         ELSE IF SubOwner[subscription_id] # user_id THEN <<"not_owner", "">>
         ELSE IF subStatus[subscription_id] # "Active" THEN <<"not_active", "">>
         ELSE <<"ok", subscription_id>>
    ELSE LET active == { s \in DOMAIN subStatus : SubOwner[s] = user_id /\ subStatus[s] = "Active" } IN
         IF active = {} THEN <<"no_active_subscription", "">>
         ELSE <<"ok", CHOOSE s \in active : \A t \in active : SubCreated[s] <= SubCreated[t]>>

\* _validate_subscription: <<verdict, subscription id>>; the rows of SaaS
\* Subscriptions are the domain of subStatus, and order_by="creation desc"
\* selects the most recently created one
_validate_subscription(user_id, subscription_id) ==
    IF subscription_id # ""
    THEN IF subscription_id \notin DOMAIN subStatus THEN <<"not_found", "">>
         ELSE IF SubOwner[subscription_id] # user_id THEN <<"not_owner", "">>
         ELSE IF subStatus[subscription_id] # "Active" THEN <<"not_active", "">>
         ELSE <<"ok", subscription_id>>
    ELSE LET active == { s \in DOMAIN subStatus : SubOwner[s] = user_id /\ subStatus[s] = "Active" } IN
         IF active = {} THEN <<"no_active_subscription", "">>
         ELSE <<"ok", CHOOSE s \in active : \A t \in active : SubCreated[t] <= SubCreated[s]>>

\* plan.max_companies or 1
MaxCompanies(plan_max) == IF plan_max = 0 THEN 1 ELSE plan_max

\* off by one: rejects only above the limit
QuotaAboveLimitOnly(subscription_id) ==
    ~ (LiveCount(subscription_id) > MaxCompanies(planMax[subscription_id]))

\* _validate_company_quota: TRUE when another company may be created
_validate_company_quota(subscription_id) ==
    ~ (LiveCount(subscription_id) >= MaxCompanies(planMax[subscription_id]))

\* SaaSCompany.validate_subscription_quota, run by insert() through validate():
\* TRUE when it does not throw
validate_subscription_quota(subscription_id) ==
    IF subscription_id = "" THEN TRUE
    ELSE ~ (LiveCount(subscription_id) >= MaxCompanies(planMax[subscription_id]))

\* the uniqueness the record store enforces on insert (frappe.UniqueValidationError):
\* a slug held by a tenant outside Deleted and Failed cannot be used again
UniqueViolation(slug) ==
    \E c \in Ids : companies[c].subdomain = slug /\ companies[c].status \notin NotLive

\* ------------------------------------------------------------------------
\* create_company
\* ------------------------------------------------------------------------
\* a new request takes the first free handler
FreeSlot(r) == req[r] = Idle /\ \A q \in 1..MaxReq : q < r => req[q] # Idle

PendingInserts == Cardinality({ r \in 1..MaxReq : req[r].op = "create" })

PendingEnqueues == Cardinality({ r \in 1..MaxReq : req[r].op \in {"create", "retry_failed", "retry_prov"} })

\* lines 370-399: the synchronous checks, in the order of the code
CreateVerdict(subdomain, company_name, subscription_id) ==
    LET sv == _validate_subdomain(subdomain)
        subv == _validate_subscription(USER1, subscription_id)
    IN  IF sv # "ok" THEN sv
        ELSE IF Len(Strip(company_name)) < MinCompanyNameLen THEN "name_too_short"
        ELSE IF subv[1] # "ok" THEN subv[1]
        ELSE IF ~ _validate_company_quota(subv[2]) THEN "quota_exceeded"
        ELSE "ok"

\* create_company up to the insert: validation and derived values
CreateBegin(r, subdomain, company_name, subscription_id, apps) ==
    /\ resp = NoResp
    /\ FreeSlot(r)
    /\ LET v == CreateVerdict(subdomain, company_name, subscription_id)
           slug == Normalise(subdomain)
       IN  IF v # "ok"
           THEN /\ resp' = Resp("create_company", 0, "validation_error", v)
                /\ UNCHANGED req
           ELSE /\ nextId + PendingInserts <= MaxTenants
                /\ nextJob + PendingEnqueues <= MaxJobs
                /\ req' = [req EXCEPT ![r] =
                              [op |-> "create", slug |-> slug,
                               site_name |-> SiteName(slug),
                               sub |-> _validate_subscription(USER1, subscription_id)[2],
                               apps |-> apps]]
                /\ resp' = NoResp
    /\ UNCHANGED <<companies, nextId, subStatus, planMax, queue, running, nextJob, queueErrors, sites, procs, serviceVars>>

\* one line of provisioning_notes, "<label>: <parts joined by ': '>"
Note(label, parts) == [label |-> label, parts |-> parts]

\* provisioning_jobs.py line 62: f"_{site_name}"
DbName(site_name) == <<"_", site_name>>

NewCompany(slug, site_name, sub) ==
    [subdomain |-> slug, site_name |-> site_name, subscription_id |-> sub,
     customer_id |-> USER1,
     admin_password |-> AdminPassword, admin_email |-> USER1, db_name |-> << >>,
     domain |-> << >>,
     status |-> "Draft", site_status |-> "None",
     provisioning_notes |-> << >>,
     provisioning_started_at |-> 0, provisioning_completed_at |-> 0]

Job(id, cid, site_name, admin_password, admin_email, apps) ==
    [id |-> id, company_id |-> cid, site_name |-> site_name,
     admin_password |-> admin_password, admin_email |-> admin_email,
     apps_to_install |-> apps]

\* the queue error is swallowed: the tenant stays Queued with no job
QueueFailureSwallowed(text) == [status |-> "Queued"]

\* the writes of the except branch around frappe.enqueue, lines 502-509
QueueFailureUpdate(text) ==
    [status |-> "Failed", provisioning_notes |-> << Note("Queue error", <<text>>) >>]

\* lines 430-511: insert (validate(), then the row goes to the store) and commit;
\* then mark it Queued, commit and frappe.enqueue; a queue error marks it Failed
CreateCommit(r, enqueue_ok) ==
    /\ resp = NoResp
    /\ req[r].op = "create"
    /\ enqueue_ok \/ queueErrors < MaxQueueErrors
    /\ IF ~ validate_subscription_quota(req[r].sub)
       THEN /\ resp' = Resp("create_company", 0, "error", "COMPANY_CREATE_FAILED: Company limit reached")
            /\ UNCHANGED <<companies, nextId, queue, nextJob, queueErrors>>
       ELSE IF UniqueViolation(req[r].slug)
       THEN /\ resp' = Resp("create_company", 0, "validation_error", "RACE_CONDITION")
            /\ UNCHANGED <<companies, nextId, queue, nextJob, queueErrors>>
       ELSE LET cid == nextId
                draft == (cid :> NewCompany(req[r].slug, req[r].site_name, req[r].sub)) @@ companies
                queued == DbSet(draft, cid, [status |-> "Queued", site_status |-> "Queued"])
            IN  /\ nextId' = nextId + 1
                /\ IF enqueue_ok
                   THEN /\ companies' = queued
                        /\ queue' = Append(queue, Job(nextJob, cid, req[r].site_name, draft[cid].admin_password,
                                                    draft[cid].admin_email, req[r].apps))
                        /\ nextJob' = nextJob + 1
                        /\ resp' = Resp("create_company", cid, "created", "Queued")
                        /\ UNCHANGED queueErrors
                   ELSE /\ companies' = DbSet(queued, cid, QueueFailureUpdate("enqueue failed"))
                        /\ resp' = Resp("create_company", cid, "server_error", "queue")
                        /\ queueErrors' = queueErrors + 1
                        /\ UNCHANGED <<queue, nextJob>>
    /\ req' = [req EXCEPT ![r] = Idle]
    /\ UNCHANGED <<subStatus, planMax, running, sites, procs, serviceVars>>

\* ------------------------------------------------------------------------
\* retry_failed_company (create_companies_service.py) and
\* retry_provisioning (company_manage.py)
\* ------------------------------------------------------------------------

\* retry_failed_company, line 571: `if company_doc.status != "Failed"` rejects
RetryFailedAllowed(status) == status = "Failed"

\* the check lets every tenant that is not running through
RetryProvisioningUnlessActive(status) == status # "Active"

\* retry_provisioning, line 136: `if doc.status != "Failed"` throws
RetryProvisioningAllowed(status) == status = "Failed"

\* `company_doc.get_password("admin_password") or "admin"`
RetryPassword(doc) == IF doc.admin_password # "" THEN doc.admin_password ELSE "admin"

\* retry_failed_company, lines 566-577: read the record and check its status
RetryFailedBegin(r, cid) ==
    /\ resp = NoResp
    /\ FreeSlot(r)
    /\ IF cid \notin Ids
       THEN /\ resp' = Resp("retry_failed_company", cid, "not_found", "none")
            /\ UNCHANGED req
       ELSE IF ~ RetryFailedAllowed(companies[cid].status)
       THEN /\ resp' = Resp("retry_failed_company", cid, "validation_error", "not_failed")
            /\ UNCHANGED req
       ELSE /\ nextJob + PendingEnqueues <= MaxJobs
            /\ req' = [req EXCEPT ![r] = [op |-> "retry_failed", cid |-> cid,
                                          site_name |-> companies[cid].site_name,
                                          admin_password |-> RetryPassword(companies[cid]),
                                          admin_email |-> companies[cid].admin_email]]
            /\ resp' = NoResp
    /\ UNCHANGED <<companies, nextId, subStatus, planMax, queue, running, nextJob, queueErrors, sites, procs, serviceVars>>

\* retry_failed_company, lines 579-611: write Queued, commit, enqueue
RetryFailedCommit(r, enqueue_ok) ==
    /\ resp = NoResp
    /\ req[r].op = "retry_failed"
    /\ enqueue_ok \/ queueErrors < MaxQueueErrors
    /\ LET cid == req[r].cid IN
       /\ companies' = DbSet(companies, cid,
                             [status |-> "Queued", site_status |-> "Queued",
                              provisioning_notes |-> << >>])
       /\ IF enqueue_ok
          THEN /\ queue' = Append(queue, Job(nextJob, cid, req[r].site_name, req[r].admin_password,
                                           req[r].admin_email, <<"erpnext">>))
               /\ nextJob' = nextJob + 1
               /\ resp' = Resp("retry_failed_company", cid, "success", "Queued")
               /\ UNCHANGED queueErrors
          ELSE /\ resp' = Resp("retry_failed_company", cid, "server_error", "queue")
               /\ queueErrors' = queueErrors + 1
               /\ UNCHANGED <<queue, nextJob>>
    /\ req' = [req EXCEPT ![r] = Idle]
    /\ UNCHANGED <<nextId, subStatus, planMax, running, sites, procs, serviceVars>>

\* retry_provisioning, lines 131-137: read the record and check its status
RetryProvisioningBegin(r, cid) ==
    /\ resp = NoResp
    /\ FreeSlot(r)
    /\ IF cid \notin Ids
       THEN /\ resp' = Resp("retry_provisioning", cid, "not_found", "none")
            /\ UNCHANGED req
       ELSE IF ~ RetryProvisioningAllowed(companies[cid].status)
       THEN /\ resp' = Resp("retry_provisioning", cid, "validation_error", "not_failed")
            /\ UNCHANGED req
       ELSE /\ nextJob + PendingEnqueues <= MaxJobs
            /\ req' = [req EXCEPT ![r] = [op |-> "retry_prov", cid |-> cid,
                                          site_name |-> companies[cid].site_name,
                                          admin_password |-> RetryPassword(companies[cid]),
                                          admin_email |-> companies[cid].admin_email]]
            /\ resp' = NoResp
    /\ UNCHANGED <<companies, nextId, subStatus, planMax, queue, running, nextJob, queueErrors, sites, procs, serviceVars>>

\* retry_provisioning, lines 139-156: write Provisioning, commit, enqueue
RetryProvisioningCommit(r, enqueue_ok) ==
    /\ resp = NoResp
    /\ req[r].op = "retry_prov"
    /\ enqueue_ok \/ queueErrors < MaxQueueErrors
    /\ LET cid == req[r].cid IN
       /\ companies' = DbSet(companies, cid,
                             [status |-> "Provisioning", provisioning_started_at |-> Now])
       /\ IF enqueue_ok
          THEN /\ queue' = Append(queue, Job(nextJob, cid, req[r].site_name, req[r].admin_password,
                                           req[r].admin_email, <<"erpnext">>))
               /\ nextJob' = nextJob + 1
               /\ resp' = Resp("retry_provisioning", cid, "success", "Provisioning")
               /\ UNCHANGED queueErrors
          ELSE /\ resp' = Resp("retry_provisioning", cid, "server_error", "queue")
               /\ queueErrors' = queueErrors + 1
               /\ UNCHANGED <<queue, nextJob>>
    /\ req' = [req EXCEPT ![r] = Idle]
    /\ UNCHANGED <<nextId, subStatus, planMax, running, sites, procs, serviceVars>>

\* ------------------------------------------------------------------------
\* suspend / reactivate
\* ------------------------------------------------------------------------

\* company_manage.suspend_company: rejects only an already suspended company
SuspendCompanyManage(cid) ==
    /\ resp = NoResp
    /\ cid \in Ids
    /\ IF companies[cid].status = "Suspended"
       THEN /\ resp' = NoResp
            /\ UNCHANGED companies
       ELSE /\ companies' = DbSet(companies, cid, [status |-> "Suspended"])
            /\ resp' = NoResp
    /\ UNCHANGED <<nextId, subStatus, planMax, queue, running, nextJob, queueErrors, sites, procs, req, serviceVars>>

\* get_companies_service.suspend_company
SuspendCompanyService(cid) ==
    /\ resp = NoResp
    /\ cid \in Ids
    /\ IF companies[cid].status = "Suspended"
       THEN /\ resp' = NoResp
            /\ UNCHANGED companies
       ELSE /\ companies' = DbSet(companies, cid, [status |-> "Suspended"])
            /\ resp' = NoResp
    /\ UNCHANGED <<nextId, subStatus, planMax, queue, running, nextJob, queueErrors, sites, procs, req, serviceVars>>

\* company_manage.reactivate_company: the subscription must still be Active
ReactivateCompany(cid) ==
    /\ resp = NoResp
    /\ cid \in Ids
    /\ IF companies[cid].status # "Suspended"
       THEN /\ resp' = NoResp
            /\ UNCHANGED companies
       ELSE IF companies[cid].subscription_id # ""
               /\ subStatus[companies[cid].subscription_id] # "Active"
       THEN /\ resp' = NoResp
            /\ UNCHANGED companies
       ELSE /\ companies' = DbSet(companies, cid, [status |-> "Active"])
            /\ resp' = NoResp
    /\ UNCHANGED <<nextId, subStatus, planMax, queue, running, nextJob, queueErrors, sites, procs, req, serviceVars>>

\* get_companies_service.activate_company
ActivateCompany(cid) ==
    /\ resp = NoResp
    /\ cid \in Ids
    /\ IF companies[cid].status # "Suspended"
       THEN /\ resp' = NoResp
            /\ UNCHANGED companies
       ELSE /\ companies' = DbSet(companies, cid, [status |-> "Active"])
            /\ resp' = NoResp
    /\ UNCHANGED <<nextId, subStatus, planMax, queue, running, nextJob, queueErrors, sites, procs, req, serviceVars>>

\* ------------------------------------------------------------------------
\* SaaS Subscriptions on_update hooks (company_hooks.py)
\* ------------------------------------------------------------------------

\* validate_company_on_subscription_change, lines 92-123
SuspendOnInactive(cs, sub, new_status) ==
    IF new_status \notin {"Active", "Trial"}
    THEN [c \in DOMAIN cs |->
            IF cs[c].subscription_id = sub /\ cs[c].status \in {"Active", "Provisioning"}
            THEN [cs[c] EXCEPT !.status = "Suspended"] ELSE cs[c]]
    ELSE cs

\* the first n elements of a set of ids in creation order
FirstN(S, n) == { c \in S : Cardinality({ d \in S : d < c }) < n }

\* auto_activate_companies_on_subscription_renewal, lines 202-231
AutoActivate(cs, sub, old_status, new_status) ==
    IF new_status = "Active" /\ old_status \in {"Past Due", "Expired"}
    THEN LET suspended == { c \in DOMAIN cs : cs[c].subscription_id = sub /\ cs[c].status = "Suspended" }
             chosen == FirstN(suspended, MaxCompanies(planMax[sub]))
         IN  [c \in DOMAIN cs |-> IF c \in chosen THEN [cs[c] EXCEPT !.status = "Active"] ELSE cs[c]]
    ELSE cs

\* a save of the subscription that changes its status, with both on_update hooks
SubscriptionSave(sub, new_status) ==
    /\ resp = NoResp
    /\ new_status # subStatus[sub]
    /\ subStatus' = [subStatus EXCEPT ![sub] = new_status]
    /\ companies' = AutoActivate(SuspendOnInactive(companies, sub, new_status),
                                 sub, subStatus[sub], new_status)
    /\ resp' = NoResp
    /\ UNCHANGED <<nextId, planMax, queue, running, nextJob, queueErrors, sites, procs, req, serviceVars>>

\* ------------------------------------------------------------------------
\* delete_company
\* ------------------------------------------------------------------------

\* _site_exists
_site_exists(site_name) == site_name \in DOMAIN sites /\ sites[site_name].exists

\* how `bench drop-site` can end: exit 0, non-zero exit, or no exit within the
\* 300 s of _run (subprocess.TimeoutExpired)
DropResults == {"ok", "err", "timeout"}

\* delete_company, lines 627-669, on an existing record: the records and the
\* sites directory after the call.  Optional drop-site (a non-zero exit is only
\* logged), mark Deleted, commit, then frappe.delete_doc removes the row; an
\* exception (the timeout of the drop command) is answered "Deletion failed"
\* after a rollback
DeleteOutcome(cid, drop_site, drop_result) ==
    LET site == companies[cid].site_name
        marked == DbSet(companies, cid, [status |-> "Deleted", site_status |-> "Deleted"])
        dropping == drop_site /\ _site_exists(site)
    IN  IF dropping /\ drop_result = "timeout"
        THEN [companies |-> companies, sites |-> sites, result |-> "server_error"]
        ELSE [companies |-> [c \in DOMAIN marked \ {cid} |-> marked[c]],
              sites |-> IF dropping /\ drop_result = "ok"
                        THEN [sites EXCEPT ![site] = NoSite]
                        ELSE sites,
              result |-> "deleted"]

\* delete_company
DeleteCompany(cid, drop_site, drop_result) ==
    /\ resp = NoResp
    /\ drop_result \in DropResults
    /\ IF cid \notin Ids
       THEN UNCHANGED <<companies, sites>>
       ELSE /\ companies' = DeleteOutcome(cid, drop_site, drop_result).companies
            /\ sites' = DeleteOutcome(cid, drop_site, drop_result).sites
    /\ resp' = NoResp
    /\ UNCHANGED <<nextId, subStatus, planMax, queue, running, nextJob, queueErrors, procs, req, serviceVars>>

\* ------------------------------------------------------------------------
\* The provisioning job (provisioning_jobs.py) and the bench commands it runs
\* ------------------------------------------------------------------------

\* stdout of `pgrep -af 'bench .* new-site' || true` run through bash -lc: the
\* matching processes, and the bash that runs the probe, whose own command line
\* contains the pattern text and is matched by it
ProbeShell == <<0, << <<"p","g","r","e","p">>, "bash -lc pgrep -af 'bench .* new-site' || true" >> >>

PgrepOutput == {ProbeShell} \cup procs

\* _clean_stale_lock: the lock file after the call
_clean_stale_lock(lock) ==
    IF lock
    THEN IF PgrepOutput = {} THEN FALSE ELSE lock
    ELSE lock

\* _site_is_installed: `bench --site <site> list-apps` exits 0
_site_is_installed(site_name) == sites[site_name].installed

\* _provision_frappe_site, lines 112-122: the sites directory after the handling
\* of an existing partial site (overwrite=True)
HandlePartialSite(site_name) ==
    IF _site_exists(site_name) /\ ~ _site_is_installed(site_name)
    THEN [sites EXCEPT ![site_name].lock = _clean_stale_lock(sites[site_name].lock)]
    ELSE sites

\* what `bench new-site --force` does to the site directory when it starts:
\* it cannot take a lock that is present; otherwise it takes the lock and
\* (re)creates the directory
ToolStartsCreate(fs, site_name) ==
    IF fs[site_name].lock THEN fs
    ELSE [fs EXCEPT ![site_name] = [exists |-> TRUE, installed |-> FALSE, lock |-> TRUE]]

\* what `bench new-site` leaves in the site directory when it ends with `result`
ToolEndsCreate(fs, site_name, result, stale_lock) ==
    CASE result = "ok" -> [fs EXCEPT ![site_name] = [exists |-> TRUE, installed |-> TRUE, lock |-> FALSE]]
      [] result = "err" -> [fs EXCEPT ![site_name] = [exists |-> TRUE, installed |-> FALSE, lock |-> stale_lock]]
      [] OTHER -> fs

\* (code, err or out) of _run_bench(cmd), line 143
ExitCode(result) == IF result = "ok" THEN 0 ELSE 1

CreateOutput(result) == IF result = "lock" THEN LockPhrase ELSE "ERROR 1045 (28000): Access denied"

\* every failure is reported as a lock conflict
AlwaysLockConflict(output) == LockConflictMsg

\* lines 145-150: the message of a failed create
CreateFailureMessage(output) ==
    IF output = LockPhrase THEN LockConflictMsg ELSE output

\* the except branch writes nothing
MarkFailedSkipped(cs, cid, parts, created) == cs

\* the except branch, lines 99-120: mark Failed with the error text and commit
\* (this also commits what the run wrote before); nothing when the row is gone
MarkFailed(cs, cid, parts, created) ==
    IF cid \in DOMAIN cs
    THEN DbSet(IF created
               THEN DbSet(cs, cid, [site_status |-> "Active", db_name |-> DbName(cs[cid].site_name)])
               ELSE cs,
               cid, [status |-> "Failed", provisioning_notes |-> << Note("Error", parts) >>])
    ELSE cs

\* the body of the message built by send_provisioning_complete_email: the
\* success message prints the admin password, the failure message the error text
MailBody(admin_password, success, error_parts) ==
    IF success THEN <<"Your Site is Ready", "Admin Password", admin_password>>
    ELSE <<"Site Provisioning Failed">> \o error_parts

\* send_provisioning_complete_email: the message handed to frappe.sendmail, or
\* nothing when sending raises (the exception is logged)
send_provisioning_complete_email(cid, admin_password, success, error_parts, email_ok) ==
    LET body == MailBody(admin_password, success, error_parts) IN
    IF email_ok
    THEN Resp("notification", cid, IF success THEN "success" ELSE "failure",
              IF \E k \in 1..Len(body) : body[k] = AdminPassword THEN "with_password" ELSE "no_password")
    ELSE NoResp

\* the mail of the except branch, lines 107-114; get_doc raises first when the
\* record is gone
FailureMail(cs, cid, parts, email_ok) ==
    IF cid \in DOMAIN cs
    THEN send_provisioning_complete_email(cid, "", FALSE, parts, email_ok)
    ELSE NoResp

\* the mail of the success path, lines 84-95; company_doc.reload() raises first
\* when the record is gone
SuccessMail(cs, cid, email_ok) ==
    IF cid \in DOMAIN cs
    THEN send_provisioning_complete_email(cid, AdminPassword, TRUE, << >>, email_ok)
    ELSE NoResp

\* _install_apps_on_site, lines 182-185: the message returned after the loop
AppsMessage(apps, failed) ==
    IF failed # << >> THEN <<"Failed to install apps">> \o failed ELSE <<"Installed apps">> \o apps

\* lines 64-83: the writes of a successful run, committed at the end
MarkActive(cs, cid, message, apps, failed) ==
    DbSet(cs, cid,
          [site_status |-> "Active", status |-> "Active",
           db_name |-> IF cid \in DOMAIN cs THEN DbName(cs[cid].site_name) ELSE << >>,
           provisioning_completed_at |-> Now,
           provisioning_notes |->
               << Note("Site created", <<message>>) >>
               \o (IF apps # << >> THEN << Note("Apps", AppsMessage(apps, failed)) >> ELSE << >>)])

\* a worker picks the job up: lines 40-48 mark Provisioning and commit, then
\* _provision_frappe_site runs up to the point where `bench new-site` is started
JobStart(pre_ok, email_ok) ==
    /\ resp = NoResp
    /\ queue # << >>
    /\ LET j == Head(queue)
           cid == j.company_id
           site == j.site_name
           started == DbSet(companies, cid,
                            [status |-> "Provisioning", provisioning_started_at |-> Now,
                             site_status |-> "Creating"])
           cleaned == HandlePartialSite(site)
       IN  /\ queue' = Tail(queue)
           /\ IF cid \notin Ids
              THEN /\ resp' = NoResp
                   /\ UNCHANGED <<companies, running, sites, procs>>
              ELSE IF ~ pre_ok
              THEN /\ companies' = MarkFailed(started, cid,
                                              <<"Site provisioning failed", "Failed to set DB config">>, FALSE)
                   /\ resp' = FailureMail(started, cid,
                                          <<"Site provisioning failed", "Failed to set DB config">>, email_ok)
                   /\ sites' = cleaned
                   /\ UNCHANGED <<running, procs>>
              ELSE /\ companies' = started
                   /\ resp' = NoResp
                   /\ sites' = ToolStartsCreate(cleaned, site)
                   /\ procs' = procs \cup {<<j.id, site>>}
                   /\ running' = running \cup
                          {[id |-> j.id, company_id |-> cid, site_name |-> site,
                            apps_to_install |-> j.apps_to_install,
                            pc |-> "new-site", idx |-> 0, failed |-> << >>,
                            partial_found |-> _site_exists(site) /\ ~ _site_is_installed(site),
                            installed_found |-> _site_exists(site) /\ _site_is_installed(site),
                            lock_found |-> sites[site].lock,
                            proc_found |-> procs # {},
                            lock_at_create |-> cleaned[site].lock,
                            cmds |-> << <<"new-site", site>> >>,
                            rets |-> << >>]}
    /\ UNCHANGED <<nextId, subStatus, planMax, nextJob, queueErrors, req, serviceVars>>

\* the run of job id (job ids are never reused)
RunningJob(id) == CHOOSE j \in running : j.id = id

\* how `bench new-site` can end: it cannot acquire a lock that is present
CreateResults(j) == IF j.lock_at_create THEN {"lock"} ELSE {"ok", "err", "timeout"}

\* the run ends: the job leaves the worker
EndRun(j) == running' = running \ {j}

\* the next install command is issued
IssueInstall(j, idx, failed, ret) ==
    running' = (running \ {j}) \cup
        {[j EXCEPT !.pc = "install-app", !.idx = idx, !.failed = failed,
                   !.cmds = Append(@, <<"install-app", j.apps_to_install[idx]>>),
                   !.rets = Append(@, ret)]}

\* the result of the create step is not looked at
ProceedRegardless(code) == TRUE

\* provisioning_jobs.py lines 61-62 on the (success, message) computed at lines
\* 145-152: the run goes on only when the create command exited 0
ProceedAfterCreate(code) == code = 0

\* `bench new-site` returns (or its 300 s timeout expires); lines 143-152 and 61-95
CreateReturns(id, result, stale_lock, email_ok) ==
    /\ resp = NoResp
    /\ \E k \in running : k.id = id /\ k.pc = "new-site" /\ result \in CreateResults(k)
    /\ LET j == RunningJob(id)
           cid == j.company_id
           site == j.site_name
           failure == <<"Site provisioning failed", CreateFailureMessage(CreateOutput(result))>>
       IN  IF result = "timeout"
           THEN \* subprocess.TimeoutExpired: the bench process keeps running
                /\ companies' = MarkFailed(companies, cid, TimeoutText(CreateCmdLine), FALSE)
                /\ resp' = FailureMail(companies, cid, TimeoutText(CreateCmdLine), email_ok)
                /\ EndRun(j)
                /\ UNCHANGED <<sites, procs>>
           ELSE /\ sites' = ToolEndsCreate(sites, site, result, stale_lock)
                /\ procs' = procs \ {<<j.id, site>>}
                /\ IF ProceedAfterCreate(ExitCode(result))
                   THEN IF j.apps_to_install = << >>
                        THEN /\ companies' = MarkActive(companies, cid, "created successfully", << >>, << >>)
                             /\ resp' = SuccessMail(companies, cid, email_ok)
                             /\ EndRun(j)
                        ELSE /\ IssueInstall(j, 1, << >>, result)
                             /\ resp' = NoResp
                             /\ UNCHANGED companies
                   ELSE /\ companies' = MarkFailed(companies, cid, failure, FALSE)
                        /\ resp' = FailureMail(companies, cid, failure, email_ok)
                        /\ EndRun(j)
    /\ UNCHANGED <<nextId, subStatus, planMax, queue, nextJob, queueErrors, req, serviceVars>>

\* `bench install-app` returns for the app at position idx (or its 300 s timeout
\* expires); lines 172-185 and 71-95
InstallReturns(id, result, email_ok) ==
    /\ resp = NoResp
    /\ \E k \in running : k.id = id /\ k.pc = "install-app"
    /\ LET j == RunningJob(id)
           cid == j.company_id
           app == j.apps_to_install[j.idx]
           failed == IF result = "err" THEN Append(j.failed, app) ELSE j.failed
       IN  IF result = "timeout"
           THEN /\ companies' = MarkFailed(companies, cid, TimeoutText(InstallCmdLine(app)), TRUE)
                /\ resp' = FailureMail(companies, cid, TimeoutText(InstallCmdLine(app)), email_ok)
                /\ EndRun(j)
           ELSE IF j.idx < Len(j.apps_to_install)
           THEN /\ IssueInstall(j, j.idx + 1, failed, result)
                /\ resp' = NoResp
                /\ UNCHANGED companies
           ELSE /\ companies' = MarkActive(companies, cid, "created successfully", j.apps_to_install, failed)
                /\ resp' = SuccessMail(companies, cid, email_ok)
                /\ EndRun(j)
    /\ UNCHANGED <<nextId, subStatus, planMax, queue, nextJob, queueErrors, sites, procs, req, serviceVars>>

\* a `bench new-site` process that outlived its job exits; it may leave its lock
OrphanExit(id, stale_lock) ==
    /\ resp = NoResp
    /\ \E p \in procs : p[1] = id
    /\ \A j \in running : j.id # id
    /\ LET p == CHOOSE q \in procs : q[1] = id IN
       /\ procs' = procs \ {p}
       /\ sites' = [sites EXCEPT ![p[2]].lock = stale_lock]
    /\ resp' = NoResp
    /\ UNCHANGED <<companies, nextId, subStatus, planMax, queue, running, nextJob, queueErrors, req, serviceVars>>

\* the caller receives the response, or the customer the notification, of the step just taken
Return ==
    /\ resp # NoResp
    /\ resp' = NoResp
    /\ UNCHANGED <<companies, nextId, subStatus, planMax, queue, running, nextJob, queueErrors, sites, procs, req, serviceVars>>

\* one step of a web worker, of a queue worker or of the bench tool, or the
\* delivery of a response.  Every step waits for the response in flight to be
\* delivered (resp = NoResp): no action reads resp, so this order loses no
\* behaviour of the other variables
Next ==
    \/ \E r \in 1..MaxReq, sd \in SlugInputs, name \in NameInputs, sub \in SubInputs, apps \in AppInputs :
          CreateBegin(r, sd, name, sub, apps)
    \/ \E r \in 1..MaxReq, ok \in BOOLEAN : CreateCommit(r, ok)
    \/ \E r \in 1..MaxReq, cid \in 1..MaxTenants : RetryFailedBegin(r, cid)
    \/ \E r \in 1..MaxReq, ok \in BOOLEAN : RetryFailedCommit(r, ok)
    \/ \E r \in 1..MaxReq, cid \in 1..MaxTenants : RetryProvisioningBegin(r, cid)
    \/ \E r \in 1..MaxReq, ok \in BOOLEAN : RetryProvisioningCommit(r, ok)
    \/ \E cid \in 1..MaxTenants : SuspendCompanyManage(cid)
    \/ \E cid \in 1..MaxTenants : SuspendCompanyService(cid)
    \/ \E cid \in 1..MaxTenants : ReactivateCompany(cid)
    \/ \E cid \in 1..MaxTenants : ActivateCompany(cid)
    \/ \E sub \in Subscriptions, st \in SubscriptionStatus : SubscriptionSave(sub, st)
    \/ \E cid \in 1..MaxTenants, drop \in BOOLEAN, res \in DropResults : DeleteCompany(cid, drop, res)
    \/ \E ok \in BOOLEAN, mail \in BOOLEAN : JobStart(ok, mail)
    \/ \E id \in 1..MaxJobs, res \in {"ok", "err", "lock", "timeout"}, stale \in BOOLEAN, mail \in BOOLEAN :
          CreateReturns(id, res, stale, mail)
    \/ \E id \in 1..MaxJobs, res \in {"ok", "err", "timeout"}, mail \in BOOLEAN :
          InstallReturns(id, res, mail)
    \/ \E id \in 1..MaxJobs, stale \in BOOLEAN : OrphanExit(id, stale)
    \/ Return

Spec == Init /\ [][Next]_vars

\* ------------------------------------------------------------------------
\* The namespace allocator on its own (domain_service.py): check_subdomain is
\* called against a record store and settings drawn from the ones below, while
\* tenants are suspended, reactivated and deleted in between
\* ------------------------------------------------------------------------
Admin == <<"a","d","m","i","n">>

Pop == <<"p","o","p">>

LongSlug == [i \in 1..64 |-> "a"]

Pixfar == <<"p","i","x","f","a","r">>

\* what a caller may send to check_subdomain
DomainInputs ==
    { <<"a","b">>, Acme, <<" ","A","c","m","e">>, Beta, Admin, Pop,
      <<"-","a","b">>, <<"a","_","b","c">>, GoodName, LongSlug, Pixfar }

\* slugs the tenants of the store hold
HeldSlugs == { Acme, Acme \o <<"1">>, Admin \o <<"2">> }

StoredStatus == {"Active", "Suspended", "Failed"}

\* site_status of a tenant that rests in `status`
RestingSiteStatus(status) ==
    CASE status = "Queued" -> "Queued"
      [] status \in {"Provisioning", "Failed"} -> "Creating"
      [] OTHER -> "Active"

StoredCompany(slug, status) ==
    [NewCompany(slug, SiteName(slug), SUB1) EXCEPT !.status = status,
                                                   !.site_status = RestingSiteStatus(status),
                                                   !.db_name = IF RestingSiteStatus(status) = "Active"
                                                               THEN DbName(SiteName(slug)) ELSE << >>]

\* the record stores: up to MaxTenants tenants, ids in creation order
DomainStores ==
    UNION { [1..k -> { StoredCompany(sl, st) : sl \in HeldSlugs, st \in StoredStatus }] : k \in 0..MaxTenants }

\* an operator reserving the first 97 numbered variants of "acme"
AcmeNumbered == { Acme \o IntToStr(i) : i \in 1..97 }

DomainSettings ==
    { [max_len |-> m, reserved |-> x] : m \in {SettingsMaxLen, 5}, x \in {ExtraReserved, AcmeNumbered} }

\* the slugs _is_taken answers TRUE for
Occupied == { companies[c].subdomain : c \in { d \in Ids : companies[d].status \notin NotLive } }

DomainInit ==
    /\ companies \in DomainStores
    /\ nextId = Len(companies) + 1
    /\ subStatus = [s \in Subscriptions |-> "Active"]
    /\ planMax = [s \in Subscriptions |-> MaxTenants]
    /\ queue = << >>
    /\ running = {}
    /\ nextJob = 1
    /\ queueErrors = 0
    /\ sites = [s \in Sites |-> NoSite]
    /\ procs = {}
    /\ req = [r \in 1..MaxReq |-> Idle]
    /\ resp = NoResp
    /\ settings \in DomainSettings
    /\ call = NoCall
    /\ backups = << >>
    /\ cache = << >>

\* one call of the check_subdomain endpoint
CheckSubdomain(subdomain) ==
    /\ call.seq < MaxCalls
    /\ call' = [fn |-> "check_subdomain", seq |-> call.seq + 1, input |-> subdomain,
                occupied |-> Occupied, out |-> check_subdomain(subdomain)]
    /\ UNCHANGED <<companies, nextId, subStatus, planMax, queue, running, nextJob, queueErrors,
                   sites, procs, req, resp, settings, backups, cache>>

DomainNext ==
    \/ \E sd \in DomainInputs : CheckSubdomain(sd)
    \/ \E cid \in 1..MaxTenants : SuspendCompanyService(cid)
    \/ \E cid \in 1..MaxTenants : ActivateCompany(cid)
    \/ \E cid \in 1..MaxTenants : DeleteCompany(cid, FALSE, "ok")

DomainSpec == DomainInit /\ [][DomainNext]_vars

\* ------------------------------------------------------------------------
\* The subscription resolution of the quota guard on its own: the customers
\* hold any of the three subscriptions in any status, statuses change by saves
\* ------------------------------------------------------------------------

\* what a caller may send as `subscription_id` ("" stands for None)
SubIdInputs == {""} \cup AllSubscriptions

Users == {USER1, USER2}

SubInit ==
    /\ companies = << >>
    /\ nextId = 1
    /\ subStatus \in UNION { [S -> SubscriptionStatus] : S \in SUBSET AllSubscriptions }
    /\ planMax = [s \in DOMAIN subStatus |-> MaxTenants]
    /\ queue = << >>
    /\ running = {}
    /\ nextJob = 1
    /\ queueErrors = 0
    /\ sites = [s \in Sites |-> NoSite]
    /\ procs = {}
    /\ req = [r \in 1..MaxReq |-> Idle]
    /\ resp = NoResp
    /\ settings = DefaultSettings
    /\ call = NoCall
    /\ backups = << >>
    /\ cache = << >>

\* one call of _validate_subscription, as create_company makes it at line 390
ValidateSubscription(user_id, subscription_id) ==
    /\ call.seq < MaxCalls
    /\ call' = [fn |-> "_validate_subscription", seq |-> call.seq + 1,
                user |-> user_id, input |-> subscription_id,
                rows |-> subStatus, out |-> _validate_subscription(user_id, subscription_id)]
    /\ UNCHANGED <<companies, nextId, subStatus, planMax, queue, running, nextJob, queueErrors,
                   sites, procs, req, resp, settings, backups, cache>>

SubNext ==
    \/ \E u \in Users, sid \in SubIdInputs : ValidateSubscription(u, sid)
    \/ \E sub \in AllSubscriptions, st \in SubscriptionStatus :
          sub \in DOMAIN subStatus /\ SubscriptionSave(sub, st)

SubSpec == SubInit /\ [][SubNext]_vars

\* ------------------------------------------------------------------------
\* Plan change of a subscription (company_hooks.py), on a store of tenants in
\* the statuses a tenant rests in
\* ------------------------------------------------------------------------

\* validate_companies_against_new_plan, lines 143-185: the count leaves out
\* Deleted, Failed and Suspended; the tenants listed for suspension are the
\* Active and Provisioning ones in creation order, the first max_companies kept
validate_companies_against_new_plan(cs, sub, plan_max) ==
    LET max_companies == MaxCompanies(plan_max)
        company_count == Cardinality({ c \in DOMAIN cs : cs[c].subscription_id = sub
                                         /\ cs[c].status \notin {"Deleted", "Failed", "Suspended"} })
        listed == { c \in DOMAIN cs : cs[c].subscription_id = sub
                                       /\ cs[c].status \in {"Active", "Provisioning"} }
        kept == FirstN(listed, max_companies)
    IN  IF company_count > max_companies
        THEN [c \in DOMAIN cs |->
                 IF c \in listed \ kept THEN [cs[c] EXCEPT !.status = "Suspended"] ELSE cs[c]]
        ELSE cs

\* a save of the subscription that changes its plan_name only: the hook
\* validate_company_on_subscription_change runs the plan check (line 126)
SubscriptionPlanSave(sub, new_max) ==
    /\ resp = NoResp
    /\ new_max # planMax[sub]
    /\ planMax' = [planMax EXCEPT ![sub] = new_max]
    /\ companies' = validate_companies_against_new_plan(companies, sub, new_max)
    /\ resp' = NoResp
    /\ UNCHANGED <<nextId, subStatus, queue, running, nextJob, queueErrors, sites, procs, req, serviceVars>>

RestingStatus == {"Queued", "Provisioning", "Active", "Failed", "Suspended"}

\* the record stores: up to MaxTenants + 1 tenants of SUB1, ids in creation order
PlanSlugs == <<Acme, Beta, Acme \o <<"1">>, Beta \o <<"1">> >>

PlanStores ==
    UNION { { [c \in 1..k |-> StoredCompany(PlanSlugs[c], st[c])] : st \in [1..k -> RestingStatus] }
            : k \in 0..(MaxTenants + 1) }

PlanInit ==
    /\ companies \in PlanStores
    /\ nextId = Len(companies) + 1
    /\ subStatus = [s \in Subscriptions |-> "Active"]
    /\ planMax = [s \in Subscriptions |-> MaxTenants + 1]
    /\ queue = << >>
    /\ running = {}
    /\ nextJob = 1
    /\ queueErrors = 0
    /\ sites = [s \in Sites |-> NoSite]
    /\ procs = {}
    /\ req = [r \in 1..MaxReq |-> Idle]
    /\ resp = NoResp
    /\ settings = DefaultSettings
    /\ call = NoCall
    /\ backups = << >>
    /\ cache = << >>

PlanNext ==
    \E sub \in Subscriptions, m \in 0..(MaxTenants + 1) : SubscriptionPlanSave(sub, m)

PlanSpec == PlanInit /\ [][PlanNext]_vars

\* ------------------------------------------------------------------------
\* Backup and restore (company_manage.py, backup_jobs.py): the endpoints
\* enqueue run_backup and run_restore on the "long" queue; each job is one
\* step between two bench commands.  Tenants may be deleted meanwhile
\* ------------------------------------------------------------------------
BackupJob(id, cid, site_name) ==
    [id |-> id, fn |-> "run_backup", company_id |-> cid, site_name |-> site_name, backup_id |-> 0]

RestoreJob(id, cid, backup_id) ==
    [id |-> id, fn |-> "run_restore", company_id |-> cid, site_name |-> << >>, backup_id |-> backup_id]

\* company_manage.create_backup: frappe.enqueue without a job id or any look at
\* the jobs already queued
create_backup(cid) ==
    /\ resp = NoResp
    /\ nextJob <= MaxBackupJobs
    /\ cid \in Ids
    /\ queue' = Append(queue, BackupJob(nextJob, cid, companies[cid].site_name))
    /\ nextJob' = nextJob + 1
    /\ resp' = NoResp
    /\ UNCHANGED <<companies, nextId, subStatus, planMax, running, queueErrors, sites, procs, req, serviceVars>>

\* company_manage.restore_backup: the backup row must exist, whatever its
\* tenant, status and file reference
restore_backup(cid, backup_id) ==
    /\ resp = NoResp
    /\ nextJob <= MaxBackupJobs
    /\ cid \in Ids
    /\ backup_id \in DOMAIN backups
    /\ queue' = Append(queue, RestoreJob(nextJob, cid, backup_id))
    /\ nextJob' = nextJob + 1
    /\ resp' = NoResp
    /\ UNCHANGED <<companies, nextId, subStatus, planMax, running, queueErrors, sites, procs, req, serviceVars>>

\* the line of the backup output taken as the file reference
BackupFile == "./acme.pixone.com/private/backups/20260101_000000-database.sql.gz"

\* how `bench backup` can end: exit 0 with or without a line naming the
\* database file, non-zero exit, or no exit within 600 s
BackupResults == {"ok_parsable", "ok_unparsable", "err", "timeout"}

\* sizes of the backup file in MB when it is found on disk (0.0 for a small one)
FileSizes == {0, 3}

\* run_backup, lines 28-37: insert the row In Progress, commit, start the command
BackupStart ==
    /\ resp = NoResp
    /\ queue # << >>
    /\ Head(queue).fn = "run_backup"
    /\ LET j == Head(queue) IN
       /\ queue' = Tail(queue)
       /\ backups' = Append(backups, [company_id |-> j.company_id, backup_type |-> "Full",
                                      status |-> "In Progress", file_url |-> "", file_size_mb |-> 0])
       /\ running' = running \cup
              {[id |-> j.id, fn |-> j.fn, company_id |-> j.company_id, site_name |-> j.site_name,
                backup_id |-> Len(backups) + 1, pc |-> "backup",
                cmds |-> << <<"backup", j.site_name>> >>]}
    /\ resp' = NoResp
    /\ UNCHANGED <<companies, nextId, subStatus, planMax, nextJob, queueErrors, sites, procs, req, settings, call, cache>>

\* the row of a backup after db_set
BackupSet(bs, backup_id, upd) ==
    [bs EXCEPT ![backup_id] = [f \in DOMAIN bs[backup_id] |-> IF f \in DOMAIN upd THEN upd[f] ELSE bs[backup_id][f]]]

\* run_backup, lines 40-91, after the command returned: the backup rows and the
\* notification.  Non-zero exit: Failed.  Exit 0: file reference parsed from the
\* output (or ""), size of the file when it exists, Completed, commit; then the
\* tenant is read for the notification, and when that raises (the tenant is
\* gone) the except branch sets the row Failed.  A timeout raises at line 40
BackupOutcome(j, result, size) ==
    LET file_url == IF result = "ok_parsable" THEN BackupFile ELSE ""
        file_size_mb == IF file_url # "" THEN size ELSE 0
        completed == BackupSet(backups, j.backup_id,
                               [status |-> "Completed", file_url |-> file_url, file_size_mb |-> file_size_mb])
    IN  IF result \in {"err", "timeout"}
        THEN [backups |-> BackupSet(backups, j.backup_id, [status |-> "Failed"]), notice |-> NoResp]
        ELSE IF j.company_id \in Ids
        THEN [backups |-> completed,
              notice |-> Resp("notification", j.company_id, "backup_completed", "none")]
        ELSE [backups |-> BackupSet(completed, j.backup_id, [status |-> "Failed"]), notice |-> NoResp]

\* `bench backup` returns (or its 600 s timeout expires)
BackupReturns(id, result, size) ==
    /\ resp = NoResp
    /\ \E k \in running : k.id = id /\ k.pc = "backup"
    /\ LET j == RunningJob(id) IN
       /\ backups' = BackupOutcome(j, result, size).backups
       /\ resp' = BackupOutcome(j, result, size).notice
       /\ EndRun(j)
    /\ UNCHANGED <<companies, nextId, subStatus, planMax, queue, nextJob, queueErrors, sites, procs, req, settings, call, cache>>

\* _notify_user: the Notification Log row for the tenant owner
_notify_user(cid, success) ==
    Resp("notification", cid, IF success THEN "restore_completed" ELSE "restore_failed", "none")

\* run_restore, lines 96-112: read the backup and the tenant (a missing row
\* raises and ends the job), return when the file reference is empty, else
\* start the restore command
RestoreStart ==
    /\ resp = NoResp
    /\ queue # << >>
    /\ Head(queue).fn = "run_restore"
    /\ LET j == Head(queue) IN
       /\ queue' = Tail(queue)
       /\ IF j.company_id \notin Ids \/ backups[j.backup_id].file_url = ""
          THEN UNCHANGED running
          ELSE running' = running \cup
                  {[id |-> j.id, fn |-> j.fn, company_id |-> j.company_id,
                    site_name |-> companies[j.company_id].site_name,
                    backup_id |-> j.backup_id, pc |-> "restore",
                    cmds |-> << <<"restore", companies[j.company_id].site_name, backups[j.backup_id].file_url>> >>]}
    /\ resp' = NoResp
    /\ UNCHANGED <<companies, nextId, subStatus, planMax, nextJob, queueErrors, sites, procs, req, serviceVars>>

\* how `bench restore` and `bench migrate` can end
RestoreResults == {"ok", "err", "timeout"}

\* run_restore, lines 109-121, after the restore command returned: non-zero
\* exit notifies the failure; exit 0 starts the migrate command; a timeout
\* raises into the except branch of line 126, which only logs
AfterRestore(j, result) ==
    CASE result = "err" -> [notice |-> _notify_user(j.company_id, FALSE), next |-> "end"]
      [] result = "ok" -> [notice |-> NoResp, next |-> "migrate"]
      [] OTHER -> [notice |-> NoResp, next |-> "end"]

\* `bench restore` returns (or its 600 s timeout expires)
RestoreReturns(id, result) ==
    /\ resp = NoResp
    /\ \E k \in running : k.id = id /\ k.pc = "restore"
    /\ LET j == RunningJob(id) IN
       /\ resp' = AfterRestore(j, result).notice
       /\ IF AfterRestore(j, result).next = "migrate"
          THEN running' = (running \ {j}) \cup
                   {[j EXCEPT !.pc = "migrate", !.cmds = Append(@, <<"migrate", j.site_name>>)]}
          ELSE EndRun(j)
    /\ UNCHANGED <<companies, nextId, subStatus, planMax, queue, nextJob, queueErrors, sites, procs, req, serviceVars>>

\* run_restore, lines 121-124: `bench migrate` returns, its exit code is not
\* looked at, the success is notified; a timeout raises into the except branch
MigrateReturns(id, result) ==
    /\ resp = NoResp
    /\ \E k \in running : k.id = id /\ k.pc = "migrate"
    /\ LET j == RunningJob(id) IN
       /\ resp' = IF result = "timeout" THEN NoResp ELSE _notify_user(j.company_id, TRUE)
       /\ EndRun(j)
    /\ UNCHANGED <<companies, nextId, subStatus, planMax, queue, nextJob, queueErrors, sites, procs, req, serviceVars>>

BackupInit ==
    /\ companies = [c \in 1..MaxTenants |-> StoredCompany(PlanSlugs[c], "Active")]
    /\ nextId = MaxTenants + 1
    /\ subStatus = [s \in Subscriptions |-> "Active"]
    /\ planMax = [s \in Subscriptions |-> MaxTenants]
    /\ queue = << >>
    /\ running = {}
    /\ nextJob = 1
    /\ queueErrors = 0
    /\ sites = [s \in Sites |-> NoSite]
    /\ procs = {}
    /\ req = [r \in 1..MaxReq |-> Idle]
    /\ resp = NoResp
    /\ settings = DefaultSettings
    /\ call = NoCall
    /\ backups = << >>
    /\ cache = << >>

\* the record store's delete as the specification describes it: the Tenant
\* record is removed whatever Backup rows name it (whether the store checks
\* references is decided by the SaaS Site Backup doctype definition)
BackupRowsBlockDelete(cid) == FALSE

BackupNext ==
    \/ \E cid \in 1..MaxTenants : create_backup(cid)
    \/ \E cid \in 1..MaxTenants, bid \in 1..MaxBackupJobs : restore_backup(cid, bid)
    \/ BackupStart
    \/ \E id \in 1..MaxBackupJobs, res \in BackupResults, size \in FileSizes : BackupReturns(id, res, size)
    \/ RestoreStart
    \/ \E id \in 1..MaxBackupJobs, res \in RestoreResults : RestoreReturns(id, res)
    \/ \E id \in 1..MaxBackupJobs, res \in RestoreResults : MigrateReturns(id, res)
    \/ \E cid \in 1..MaxTenants : ~ BackupRowsBlockDelete(cid) /\ DeleteCompany(cid, FALSE, "ok")
    \/ Return

BackupSpec == BackupInit /\ [][BackupNext]_vars

\* ------------------------------------------------------------------------
\* App marketplace (marketplace_service.py): install, uninstall and update of
\* an app run as background jobs whose progress is kept in the cache
\* ------------------------------------------------------------------------

MarketApps == {"hrms"}

MarketOps == {"install_app", "uninstall_app", "update_app"}

\* f"install_app_{company_id}_{app_name}" and its like
MarketJobId(op, cid, app) == <<op, cid, app>>

MarketJobIds == { MarketJobId(op, cid, app) : op \in MarketOps, cid \in 1..MaxTenants, app \in MarketApps }

\* the value stored under app_install:<job id>; error is "" when the key is absent
Progress(status, error) == [status |-> status, error |-> error]

\* frappe.cache().set_value(cache_key, value)
CacheSet(key, value) == [k \in DOMAIN cache \cup {key} |-> IF k = key THEN value ELSE cache[k]]

\* frappe.enqueue(job_id=..., deduplicate=True): nothing is added while a job
\* with this id is queued or started
EnqueueDeduplicated(job) ==
    IF \/ \E i \in 1..Len(queue) : queue[i].id = job.id
       \/ \E j \in running : j.id = job.id
    THEN queue ELSE Append(queue, job)

MarketJob(op, cid, app) ==
    [id |-> MarketJobId(op, cid, app), fn |-> op, company_id |-> cid, app_name |-> app]

\* install_app, lines 116-153: the tenant must be Active; enqueue, then the
\* progress record is set to queued
install_app(cid, app) ==
    /\ resp = NoResp
    /\ cid \in Ids
    /\ IF companies[cid].status # "Active"
       THEN UNCHANGED <<queue, cache>>
       ELSE /\ queue' = EnqueueDeduplicated(MarketJob("install_app", cid, app))
            /\ cache' = CacheSet(MarketJobId("install_app", cid, app), Progress("queued", ""))
    /\ resp' = NoResp
    /\ UNCHANGED <<companies, nextId, subStatus, planMax, running, nextJob, queueErrors, sites, procs, req,
                   settings, call, backups>>

\* uninstall_app, lines 210-239
uninstall_app(cid, app) ==
    /\ resp = NoResp
    /\ cid \in Ids
    /\ queue' = EnqueueDeduplicated(MarketJob("uninstall_app", cid, app))
    /\ cache' = CacheSet(MarketJobId("uninstall_app", cid, app), Progress("queued", ""))
    /\ resp' = NoResp
    /\ UNCHANGED <<companies, nextId, subStatus, planMax, running, nextJob, queueErrors, sites, procs, req,
                   settings, call, backups>>

\* update_app, lines 289-307: enqueue; no progress record is written
update_app(cid, app) ==
    /\ resp = NoResp
    /\ cid \in Ids
    /\ queue' = EnqueueDeduplicated(MarketJob("update_app", cid, app))
    /\ resp' = NoResp
    /\ UNCHANGED <<companies, nextId, subStatus, planMax, running, nextJob, queueErrors, sites, procs, req,
                   settings, call, backups, cache>>

\* the first command of each job
FirstCommand(fn) ==
    IF fn = "install_app" THEN "install-app"
    ELSE IF fn = "uninstall_app" THEN "uninstall-app" ELSE "get-app"

\* a worker picks the job up and starts its first command; _run_install_app
\* writes installing first (lines 162-164), the other two write nothing
MarketJobStart ==
    /\ resp = NoResp
    /\ queue # << >>
    /\ LET j == Head(queue) IN
       /\ queue' = Tail(queue)
       /\ running' = running \cup {[id |-> j.id, fn |-> j.fn, company_id |-> j.company_id,
                                     app_name |-> j.app_name, pc |-> FirstCommand(j.fn)]}
       /\ cache' = IF j.fn = "install_app" THEN CacheSet(j.id, Progress("installing", "")) ELSE cache
    /\ resp' = NoResp
    /\ UNCHANGED <<companies, nextId, subStatus, planMax, nextJob, queueErrors, sites, procs, req,
                   settings, call, backups>>

\* how a bench command can end: exit 0; non-zero exit with output; non-zero
\* exit with nothing on stdout and stderr; no exit within the timeout
MarketResults == {"ok", "err", "err_silent", "timeout"}

\* `err or out` of a failed command
ErrOrOut(result) == IF result = "err" THEN "command failed" ELSE ""

\* str(e) of the subprocess.TimeoutExpired
MarketTimeoutText == "timed out after 600 seconds"

\* the status written after `bench migrate` returned
MigrateStatus(result) == IF result = "ok" THEN "completed" ELSE "migration_failed"

\* the first command of job id returns (or its timeout expires):
\* _run_install_app lines 167-182, _run_uninstall_app 248-257, _run_update_app 316-320
MarketCommandReturns(id, result) ==
    /\ resp = NoResp
    /\ \E k \in running : k.id = id /\ k.pc # "migrate"
    /\ LET j == RunningJob(id) IN
       IF result = "timeout"
       THEN /\ cache' = CacheSet(id, Progress("failed", MarketTimeoutText))
            /\ EndRun(j)
       ELSE IF result # "ok"
       THEN /\ cache' = CacheSet(id, Progress("failed", ErrOrOut(result)))
            /\ EndRun(j)
       ELSE /\ cache' = IF j.fn = "install_app" THEN CacheSet(id, Progress("migrating", "")) ELSE cache
            /\ running' = (running \ {j}) \cup {[j EXCEPT !.pc = "migrate"]}
    /\ resp' = NoResp
    /\ UNCHANGED <<companies, nextId, subStatus, planMax, queue, nextJob, queueErrors, sites, procs, req,
                   settings, call, backups>>

\* `bench migrate` of job id returns (or its timeout expires): lines 184-206,
\* 259-272, 322-330
MarketMigrateReturns(id, result) ==
    /\ resp = NoResp
    /\ \E k \in running : k.id = id /\ k.pc = "migrate"
    /\ LET j == RunningJob(id) IN
       /\ cache' = IF result = "timeout"
                   THEN CacheSet(id, Progress("failed", MarketTimeoutText))
                   ELSE CacheSet(id, Progress(MigrateStatus(result), ""))
       /\ EndRun(j)
    /\ resp' = NoResp
    /\ UNCHANGED <<companies, nextId, subStatus, planMax, queue, nextJob, queueErrors, sites, procs, req,
                   settings, call, backups>>

\* MaxTenants Active tenants, nothing queued, nothing in the cache
MarketInit == BackupInit

\* the requests and jobs of one tenant
MarketNext ==
    \/ \E app \in MarketApps : install_app(1, app)
    \/ \E app \in MarketApps : uninstall_app(1, app)
    \/ \E app \in MarketApps : update_app(1, app)
    \/ MarketJobStart
    \/ \E id \in MarketJobIds, res \in MarketResults : MarketCommandReturns(id, res)
    \/ \E id \in MarketJobIds, res \in MarketResults : MarketMigrateReturns(id, res)
    \/ SuspendCompanyManage(1)

MarketSpec == MarketInit /\ [][MarketNext]_vars

\* ------------------------------------------------------------------------
\* Renaming a site (update_companies_service.py, company_manage.py): one
\* installed Active tenant, a second tenant created and provisioned beside it
\* ------------------------------------------------------------------------

\* renames of one tenant
MaxRenames == 2

\* the password of the session user
UserPassword == "owner-password"

\* what a caller may send as `user_password`
PasswordInputs == {UserPassword, "guess"}

\* what a caller may send as `new_domain` or `custom_domain`
DomainNameInputs == { <<s, BaseDomain>> : s \in SlugInputs }

\* frappe.auth.check_password(user_email, password) does not raise
_verify_user_password(user_email, password) == user_email = USER1 /\ password = UserPassword

\* one label of the domain format: [a-z0-9]([a-z0-9-]*[a-z0-9])?
DomainLabel(label) ==
    /\ Len(label) >= 1
    /\ label[1] \in AlnumChars
    /\ label[Len(label)] \in AlnumChars
    /\ \A i \in 1..Len(label) : label[i] \in AlnumChars \cup {"-"}

\* new_domain.lower().strip() of "<label>.<base domain>": the base domain is
\* lower case and ends the string, so only the label changes
LowerStrip(domain_name) == <<Lower(LStrip(domain_name[1])), domain_name[2]>>

\* set_custom_domain: the tenant is Active, the lower-cased name has the
\* domain format and no other tenant has it as its `domain`; the name is
\* stored as it was sent
set_custom_domain(cid, custom_domain) ==
    /\ resp = NoResp
    /\ cid \in Ids
    /\ companies[cid].status = "Active"
    /\ DomainLabel(Lower(custom_domain[1]))
    /\ ~ \E o \in Ids : o # cid /\ companies[o].domain = custom_domain
    /\ companies' = DbSet(companies, cid, [domain |-> custom_domain])
    /\ UNCHANGED <<nextId, subStatus, planMax, queue, running, nextJob, queueErrors, sites, procs, req, resp,
                   serviceVars>>

\* the renames a tenant has gone through, one note each
Renames(cid) ==
    Cardinality({ i \in 1..Len(companies[cid].provisioning_notes) :
                    companies[cid].provisioning_notes[i].label = "Site renamed" })

\* the note appended by update_site_domain
RenameNote(old_site_name, new_site_name) == Note("Site renamed", <<old_site_name, new_site_name>>)

\* _rename_site: `mv sites/<old> sites/<new>` succeeds when the old
\* directory is there and the command returns in time
RenameSucceeds(old_site_name, result) == result = "ok" /\ _site_exists(old_site_name)

\* update_site_domain: the subscription is valid, the tenant Active, the new
\* name differs from `domain`, the password is right and no directory has the
\* new name; site_status is Renaming (committed) while the directory is moved;
\* a failed move puts site_status back, a move that succeeded writes domain,
\* site_name, site_status, db_name and appends the note
update_site_domain(cid, new_domain, user_password, result) ==
    /\ resp = NoResp
    /\ cid \in Ids
    /\ Renames(cid) < MaxRenames
    /\ _validate_subscription(USER1, companies[cid].subscription_id)[1] = "ok"
    /\ companies[cid].status = "Active"
    /\ LET old_site_name == companies[cid].domain
           new_site_name == LowerStrip(new_domain)
       IN  /\ old_site_name # new_site_name
           /\ _verify_user_password(USER1, user_password)
           /\ ~ _site_exists(new_site_name)
           /\ IF RenameSucceeds(old_site_name, result)
              THEN /\ sites' = [sites EXCEPT ![old_site_name] = NoSite, ![new_site_name] = sites[old_site_name]]
                   /\ companies' = DbSet(companies, cid,
                         [domain |-> new_domain,
                          site_name |-> new_site_name,
                          site_status |-> "Active",
                          db_name |-> DbName(new_site_name),
                          provisioning_notes |-> Append(companies[cid].provisioning_notes,
                                                        RenameNote(old_site_name, new_site_name))])
              ELSE /\ sites' = sites
                   /\ companies' = DbSet(companies, cid, [site_status |-> "Active"])
    /\ UNCHANGED <<nextId, subStatus, planMax, queue, running, nextJob, queueErrors, procs, req, resp, serviceVars>>

\* tenant 1 is Active and installed under its first site name
RenameInit ==
    /\ companies = [c \in {1} |-> StoredCompany(Acme, "Active")]
    /\ nextId = 2
    /\ subStatus = [s \in Subscriptions |-> "Active"]
    /\ planMax = [s \in Subscriptions |-> MaxTenants]
    /\ queue = << >>
    /\ running = {}
    /\ nextJob = 1
    /\ queueErrors = 0
    /\ sites = [s \in Sites |-> IF s = SiteName(Acme)
                                THEN [exists |-> TRUE, installed |-> TRUE, lock |-> FALSE]
                                ELSE NoSite]
    /\ procs = {}
    /\ req = [r \in 1..MaxReq |-> Idle]
    /\ resp = NoResp
    /\ settings = DefaultSettings
    /\ call = NoCall
    /\ backups = << >>
    /\ cache = << >>

\* the second tenant is created and provisioned while the first one sets its
\* domain and renames its site
RenameNext ==
    \/ \E sd \in SlugInputs, name \in NameInputs, sub \in SubInputs, apps \in AppInputs :
          nextId = 2 /\ PendingInserts = 0 /\ CreateBegin(1, sd, name, sub, apps)
    \/ \E ok \in BOOLEAN : CreateCommit(1, ok)
    \/ \E ok \in BOOLEAN, mail \in BOOLEAN : JobStart(ok, mail)
    \/ \E id \in 1..MaxJobs, res \in {"ok", "err", "lock", "timeout"}, stale \in BOOLEAN, mail \in BOOLEAN :
          CreateReturns(id, res, stale, mail)
    \/ \E id \in 1..MaxJobs, res \in {"ok", "err", "timeout"}, mail \in BOOLEAN :
          InstallReturns(id, res, mail)
    \/ \E id \in 1..MaxJobs, stale \in BOOLEAN : OrphanExit(id, stale)
    \/ \E cid \in 1..MaxTenants, d \in DomainNameInputs : set_custom_domain(cid, d)
    \/ \E cid \in 1..MaxTenants, d \in DomainNameInputs, pw \in PasswordInputs, res \in {"ok", "err"} :
          update_site_domain(cid, d, pw, res)
    \/ Return

RenameSpec == RenameInit /\ [][RenameNext]_vars

\* ------------------------------------------------------------------------
\* Properties
\* ------------------------------------------------------------------------
Live(c) == companies[c].status \notin NotLive

\* the provisioning jobs, queued or running, of tenant c
JobsOf(c) ==
    Cardinality({ i \in 1..Len(queue) : queue[i].company_id = c })
    + Cardinality({ j \in running : j.company_id = c })

\* C1: in every reachable state no two tenant records whose status is outside
\* {Deleted, Failed} hold the same subdomain (so of two concurrent creates for
\* one slug at most one leaves a live record)
C1_UniqueLiveSubdomain ==
    \A c, d \in Ids :
        (c # d /\ Live(c) /\ Live(d)) => companies[c].subdomain # companies[d].subdomain

\* a create request answered in a state where its subscription is at its limit
QuotaFull(sub) == LiveCount(sub) >= MaxCompanies(planMax[sub])

\* C2: while N = max_companies live tenants exist under the subscription, no
\* create_company passes validation or inserts a record, and a request with a
\* free valid slug and an Active subscription is answered quota-exceeded; right
\* after a delete_company that takes the count from N to below N, a create of
\* any free valid slug passes every check of create_company and of the insert
C2_QuotaRejectsThenAdmits ==
    [][ /\ (resp'.op = "create_company" /\ QuotaFull(SUB1)) =>
            /\ resp'.result \in {"validation_error", "error"}
            /\ resp'.reason # "RACE_CONDITION"
            /\ nextId' = nextId
            /\ resp'.reason \notin {"reserved", "taken", "name_too_short", "not_active", "no_active_subscription"}
                  => resp'.reason \in {"quota_exceeded", "COMPANY_CREATE_FAILED: Company limit reached"}
        /\ (req' # req /\ QuotaFull(SUB1)) =>
            \A r \in 1..MaxReq : req[r] = Idle => req'[r].op # "create"
        /\ (/\ DOMAIN companies' # Ids
            /\ \E c \in Ids : Live(c) /\ c \notin DOMAIN companies'
            /\ LiveCount(SUB1) = MaxCompanies(planMax[SUB1])
            /\ subStatus'[SUB1] = "Active")
           => \A sd \in {Acme, Beta} :
                 ~ (SubdomainTaken(sd))'
                 => /\ (CreateVerdict(sd, GoodName, SUB1))' = "ok"
                    /\ (validate_subscription_quota(SUB1))'
                    /\ ~ (UniqueViolation(sd))'
      ]_vars

\* a create was answered quota-exceeded with two live tenants under a plan of two
C2_Witness ==
    /\ resp = Resp("create_company", 0, "validation_error", "quota_exceeded")
    /\ planMax[SUB1] = 2
    /\ LiveCount(SUB1) = 2

\* C3: in every reachable state the number of tenants of a subscription whose
\* status is outside {Deleted, Failed} is at most the plan's max_companies
\* (1 when unset)
C3_LiveWithinQuota ==
    \A sub \in Subscriptions : LiveCount(sub) <= MaxCompanies(planMax[sub])

\* C4: at any time at most one provisioning job, queued or running, exists per
\* tenant
C4_OneJobPerTenant ==
    \A c \in 1..MaxTenants : JobsOf(c) <= 1


\* text t appears in the notes
ContainsText(notes, t) ==
    \E i \in 1..Len(notes) : \E k \in 1..Len(notes[i].parts) : notes[i].parts[k] = t

\* C5: a retry (retry_failed_company or retry_provisioning) invoked on a tenant
\* whose status is not Failed is rejected, and nothing but the response changes:
\* status, site_status, provisioning_notes and timestamps stay, no job is enqueued
C5_RetryRejectedNoEffect ==
    [][ \A cid \in 1..MaxTenants :
          (/\ cid \in Ids
           /\ companies[cid].status # "Failed"
           /\ \E r \in 1..MaxReq : RetryFailedBegin(r, cid) \/ RetryProvisioningBegin(r, cid))
          => /\ resp'.result = "validation_error"
             /\ resp'.reason = "not_failed"
             /\ UNCHANGED <<companies, nextId, subStatus, planMax, queue, running, nextJob,
                            queueErrors, sites, procs, req>>
      ]_vars

\* a retry of an Active tenant was answered with the rejection
C5_Witness ==
    /\ resp = Resp("retry_provisioning", 1, "validation_error", "not_failed")
    /\ 1 \in Ids
    /\ companies[1].status = "Active"

\* C6: every retry that is accepted leaves the tenant Queued with its subdomain
\* and site name, and a tenant enters Provisioning only from Queued
C6_RetryGoesThroughQueued ==
    [][ \A c \in Ids \cap DOMAIN companies' :
          /\ (\E r \in 1..MaxReq : /\ req[r].op \in {"retry_failed", "retry_prov"}
                                   /\ req[r].cid = c
                                   /\ req'[r] = Idle)
             => /\ companies'[c].status = "Queued"
                /\ companies'[c].subdomain = companies[c].subdomain
                /\ companies'[c].site_name = companies[c].site_name
          /\ (companies'[c].status = "Provisioning" /\ companies[c].status # "Provisioning")
             => companies[c].status = "Queued"
      ]_vars

\* C7: in a provisioning run, an install-app command is issued only after the
\* new-site command of that run, and only when that command returned success
C7_InstallOnlyAfterCreateOk ==
    \A j \in running :
        \A i \in 1..Len(j.cmds) :
            j.cmds[i][1] = "install-app"
            => /\ i > 1
               /\ j.cmds[1][1] = "new-site"
               /\ Len(j.rets) >= 1
               /\ j.rets[1] = "ok"

\* a run has issued the install of its second app
C7_Witness ==
    \E j \in running : j.pc = "install-app" /\ j.idx = 2 /\ Len(j.cmds) = 3

\* C8 as stated: when new-site returns non-zero, the tenant becomes Failed and
\* provisioning_notes contains the captured output of the command
C8_NotesHoldCapturedOutput ==
    [][ \A j \in running : \A res \in {"err", "lock"} : \A stale \in BOOLEAN :
          ((\E mail \in BOOLEAN : CreateReturns(j.id, res, stale, mail)) /\ j.company_id \in DOMAIN companies')
          => /\ companies'[j.company_id].status = "Failed"
             /\ ContainsText(companies'[j.company_id].provisioning_notes, CreateOutput(res))
      ]_vars

\* C8 amended: when new-site returns non-zero, the tenant (unless its record was
\* removed meanwhile) becomes Failed and provisioning_notes contains the captured
\* output, or the fixed lock-conflict message when the output reports that the
\* lock could not be acquired
C8_NotesHoldOutputOrLockMessage ==
    [][ \A j \in running : \A res \in {"err", "lock"} : \A stale \in BOOLEAN :
          ((\E mail \in BOOLEAN : CreateReturns(j.id, res, stale, mail)) /\ j.company_id \in DOMAIN companies')
          => /\ companies'[j.company_id].status = "Failed"
             /\ ContainsText(companies'[j.company_id].provisioning_notes,
                             IF res = "lock" THEN LockConflictMsg ELSE CreateOutput(res))
             /\ res = "lock" => ~ ContainsText(companies'[j.company_id].provisioning_notes, LockPhrase)
      ]_vars

\* a run whose new-site could not take the lock has ended: the tenant is Failed
\* with the lock-conflict message
C8_Witness ==
    \E c \in Ids :
        /\ companies[c].status = "Failed"
        /\ ContainsText(companies[c].provisioning_notes, LockConflictMsg)
        /\ \A j \in running : j.company_id # c

\* C9: a run that found the site directory partial, its lock present and a
\* matching process running issues no new-site command and keeps the lock
C9_NoCreateWhileLockHeld ==
    \A j \in running :
        (j.partial_found /\ j.lock_found /\ j.proc_found)
        => /\ \A i \in 1..Len(j.cmds) : j.cmds[i][1] # "new-site"
           /\ j.lock_at_create

\* C10: a run that found the site directory partial, its lock present and no
\* matching process has deleted the lock before it issues new-site
C10_StaleLockDeleted ==
    \A j \in running :
        (j.partial_found /\ j.lock_found /\ ~ j.proc_found)
        => /\ ~ j.lock_at_create
           /\ \E i \in 1..Len(j.cmds) : j.cmds[i][1] = "new-site"

\* C11: a tenant goes from Suspended to Active through reactivate_company,
\* activate_company or the renewal hook only when its subscription is Active
\* at that moment
C11_ReactivationNeedsActiveSubscription ==
    [][ \A c \in Ids \cap DOMAIN companies' :
          (/\ companies[c].status = "Suspended"
           /\ companies'[c].status = "Active"
           /\ \/ ReactivateCompany(c)
              \/ ActivateCompany(c)
              \/ \E st \in SubscriptionStatus : SubscriptionSave(companies[c].subscription_id, st))
          => subStatus'[companies[c].subscription_id] = "Active"
      ]_vars

\* C12: in every reachable state, a delete_company with teardown requested whose
\* drop-site command fails (non-zero exit or timeout) is answered as deleted and
\* removes the tenant record
C12_DeleteSurvivesDropFailure ==
    \A cid \in Ids : \A res \in {"err", "timeout"} :
        _site_exists(companies[cid].site_name)
        => /\ DeleteOutcome(cid, TRUE, res).result = "deleted"
           /\ cid \notin DOMAIN DeleteOutcome(cid, TRUE, res).companies

\* the second half of C12: after a delete_company that removed the record, the
\* slug is available to check_subdomain and passes _validate_subdomain unless
\* another live tenant holds it
C12_SlugFreeAfterDelete ==
    [][ \A cid \in Ids \ DOMAIN companies' : \A sd \in Slugs :
          (/\ cid \notin DOMAIN companies'
           /\ sd = companies[cid].subdomain
           /\ ~ (SubdomainTaken(sd))')
          => /\ (check_subdomain(sd))'.available
             /\ (_validate_subdomain(sd))' = "ok"
      ]_vars

\* C13: a run that found the site installed when it started has issued no
\* new-site command
C13_NoCreateWhenInstalled ==
    \A j \in running :
        j.installed_found => \A i \in 1..Len(j.cmds) : j.cmds[i][1] # "new-site"

\* the run of j ends in this step with all its commands returned
EndsAfterAllCommands(j) ==
    /\ \A k \in running' : k.id # j.id
    /\ \E mail \in BOOLEAN :
          \/ CreateReturns(j.id, "ok", FALSE, mail)
          \/ \E res \in {"ok", "err"} : InstallReturns(j.id, res, mail)

\* C14: a run whose new-site succeeded and whose install commands have all
\* returned has issued the migrate command exactly once, as its last command
C14_MigrateOnceAfterInstall ==
    [][ \A j \in running :
          EndsAfterAllCommands(j)
          => /\ Cardinality({ i \in 1..Len(j.cmds) : j.cmds[i][1] = "migrate" }) = 1
             /\ j.cmds[Len(j.cmds)][1] = "migrate"
      ]_vars

\* the outcome required of a run in which an install-app command has exited
\* non-zero, when the install command of j returns with res: the install of the
\* next requested app is issued, or after the last one the tenant is Active with
\* the failed apps named in provisioning_notes
FailureToleratedAt(j, res) ==
    IF j.idx < Len(j.apps_to_install)
    THEN \E k \in running' :
            /\ k.id = j.id
            /\ k.cmds = Append(j.cmds, <<"install-app", j.apps_to_install[j.idx + 1]>>)
    ELSE j.company_id \in DOMAIN companies'
         => /\ companies'[j.company_id].status = "Active"
            /\ ContainsText(companies'[j.company_id].provisioning_notes, "Failed to install apps")
            /\ \A i \in 1..Len(j.failed) :
                  ContainsText(companies'[j.company_id].provisioning_notes, j.failed[i])
            /\ res = "err" => ContainsText(companies'[j.company_id].provisioning_notes,
                                            j.apps_to_install[j.idx])

\* C15: in a run in which an install-app command has exited non-zero, the
\* install commands of all remaining apps are still issued, and the run ends
\* with the tenant Active and the failure in provisioning_notes, however the
\* later install commands end
C15_InstallFailureNotFatal ==
    [][ \A j \in running : \A res \in {"ok", "err", "timeout"} :
          ((\E mail \in BOOLEAN : InstallReturns(j.id, res, mail))
           /\ (res = "err" \/ j.failed # << >>))
          => FailureToleratedAt(j, res)
      ]_vars

\* C15 restricted to install commands that exit (0 or non-zero)
C15_NonZeroExitsNotFatal ==
    [][ \A j \in running : \A res \in {"ok", "err"} :
          ((\E mail \in BOOLEAN : InstallReturns(j.id, res, mail))
           /\ (res = "err" \/ j.failed # << >>))
          => FailureToleratedAt(j, res)
      ]_vars

\* C16: the timeout of an install-app command has the outcome of its non-zero
\* exit: the next install is issued, or after the last one the tenant is Active
C16_InstallTimeoutLikeFailure ==
    [][ \A j \in running :
          (\E mail \in BOOLEAN : InstallReturns(j.id, "timeout", mail))
          => IF j.idx < Len(j.apps_to_install)
             THEN \E k \in running' : k.id = j.id /\ k.idx = j.idx + 1
             ELSE j.company_id \in DOMAIN companies'
                  => companies'[j.company_id].status = "Active"
      ]_vars

\* C17: when a run ends, the tenant has a provisioning_completed_at that is set
\* and not earlier than its provisioning_started_at
C17_CompletedAtSetOnEveryEnd ==
    [][ \A j \in running :
          ((\A k \in running' : k.id # j.id) /\ j.company_id \in DOMAIN companies')
          => /\ companies'[j.company_id].provisioning_completed_at # 0
             /\ companies'[j.company_id].provisioning_completed_at
                    >= companies'[j.company_id].provisioning_started_at
      ]_vars

\* C18: a notification of a provisioning run carries the admin password only
\* when it is the success notification of a tenant that is Active
C18_PasswordOnlyOnSuccess ==
    (resp.op = "notification" /\ resp.reason = "with_password")
    => /\ resp.result = "success"
       /\ resp.cid \in Ids
       /\ companies[resp.cid].status = "Active"

\* a create_company input that validation has to reject in the current state: a
\* slug that is too short, reserved or held by a live tenant, a name shorter than
\* three characters, a subscription that is not Active, or a full quota
InvalidCreateInput(sd, name, sub) ==
    \/ Len(Normalise(sd)) < MinSubdomainLen
    \/ Normalise(sd) \in ReservedSet
    \/ \E c \in Ids : Live(c) /\ companies[c].subdomain = Normalise(sd)
    \/ Len(Strip(name)) < MinCompanyNameLen
    \/ subStatus[SUB1] # "Active"
    \/ QuotaFull(SUB1)

\* C19: a create_company answered with a rejection leaves the tenant records,
\* the job queue and the instances as they were, and no request whose slug,
\* name, subscription or quota is invalid gets past validation
C19_RejectedCreateNoEffect ==
    [][ /\ (resp'.op = "create_company" /\ resp'.result \in {"validation_error", "error"})
           => UNCHANGED <<companies, nextId, queue, nextJob, running, sites, procs>>
        /\ (\E q \in 1..MaxReq : req[q] = Idle /\ req'[q] # Idle)
           => \A r \in 1..MaxReq, sd \in SlugInputs, name \in NameInputs,
                 sub \in SubInputs, apps \in AppInputs :
                 ~ (FreeSlot(r) /\ InvalidCreateInput(sd, name, sub) /\ CreateBegin(r, sd, name, sub, apps))
      ]_vars

\* a create for a reserved slug was rejected while a tenant exists
C19_Witness ==
    /\ resp = Resp("create_company", 0, "validation_error", "reserved")
    /\ companies # << >>

\* C20: the step of create_company that inserts the record (status Draft) leaves
\* it Queued with exactly one new job for it and answers with its id and status
\* Queued, running no bench command; when frappe.enqueue raises, the tenant is
\* Failed with the queue error in provisioning_notes and no job is added
C20_CreateQueuesOneJob ==
    [][ \A r \in 1..MaxReq : \A ok \in BOOLEAN :
          (nextId' # nextId /\ CreateCommit(r, ok))
          => LET cid == nextId
                 draft == NewCompany(req[r].slug, req[r].site_name, req[r].sub)
             IN  /\ cid \notin Ids
                 /\ draft.status = "Draft"
                 /\ DOMAIN companies' = Ids \cup {cid}
                 /\ UNCHANGED <<running, sites, procs>>
                 /\ IF ok
                    THEN /\ companies'[cid] = [draft EXCEPT !.status = "Queued", !.site_status = "Queued"]
                         /\ Len(queue') = Len(queue) + 1
                         /\ SubSeq(queue', 1, Len(queue)) = queue
                         /\ queue'[Len(queue')].company_id = cid
                         /\ resp' = Resp("create_company", cid, "created", "Queued")
                    ELSE /\ companies'[cid].status = "Failed"
                         /\ \E i \in 1..Len(companies'[cid].provisioning_notes) :
                               companies'[cid].provisioning_notes[i].label = "Queue error"
                         /\ queue' = queue
                         /\ resp'.result = "server_error"
      ]_vars

\* a create was answered with the id of a Queued tenant whose job is in the queue
C20_Witness ==
    /\ resp = Resp("create_company", 1, "created", "Queued")
    /\ 1 \in Ids
    /\ companies[1].status = "Queued"
    /\ Len(queue) = 1
    /\ queue[1].company_id = 1

\* ------------------------------------------------------------------------
\* Namespace allocator (C21..C23), checked under DomainSpec
\* ------------------------------------------------------------------------

\* lowercase letters, digits and hyphens, first and last character alphanumeric
WellFormedSlug(slug) ==
    /\ slug # << >>
    /\ \A i \in 1..Len(slug) : slug[i] \in LowerLetters \cup Digits \cup {"-"}
    /\ slug[1] # "-"
    /\ slug[Len(slug)] # "-"

\* the first reason, in the order of the claim, a slug is refused for when the
\* live tenants hold the slugs of `occupied`; "none" when there is none
FirstReason(slug, occupied) ==
    CASE Len(slug) < 3 -> "too_short"
      [] Len(slug) >= 3 /\ Len(slug) > settings.max_len -> "too_long"
      [] Len(slug) \in 3..settings.max_len /\ ~ WellFormedSlug(slug) -> "invalid_format"
      [] Len(slug) \in 3..settings.max_len /\ WellFormedSlug(slug)
         /\ slug \in _BUILTIN_RESERVED \cup settings.reserved -> "reserved"
      [] Len(slug) \in 3..settings.max_len /\ WellFormedSlug(slug)
         /\ slug \notin _BUILTIN_RESERVED \cup settings.reserved /\ slug \in occupied -> "taken"
      [] OTHER -> "none"

\* C21: check_subdomain answers available exactly when the normalised slug has
\* length 3..max, is well formed, is not reserved and is not held by a tenant
\* outside Deleted and Failed; otherwise it gives the first reason that applies
\* in the order too_short, too_long, invalid_format, reserved, taken, and a
\* too_short answer carries no suggestion
C21_CheckSubdomainVerdict ==
    call.fn = "check_subdomain" =>
        LET expected == FirstReason(Normalise(call.input), call.occupied) IN
        /\ call.out.available <=> expected = "none"
        /\ call.out.reason = expected
        /\ call.out.reason = "too_short" => call.out.suggestions = << >>

\* " Acme" was checked while a live tenant holds "acme"
C21_Witness ==
    /\ call.fn = "check_subdomain"
    /\ call.input = <<" ","A","c","m","e">>
    /\ call.out.reason = "taken"
    /\ ~ call.out.available

\* C22: for a reserved or taken slug every suggestion differs from the slug and
\* would itself be answered available in the state of the call, at most five
\* suggestions are returned, and a reserved slug with a free numeric variant
\* gets at least one
C22_SuggestionsAvailable ==
    (call.fn = "check_subdomain" /\ call.out.reason \in {"reserved", "taken"}) =>
        LET slug == Normalise(call.input)
            sugg == call.out.suggestions
        IN  /\ Len(sugg) <= 5
            /\ \A k \in 1..Len(sugg) :
                  /\ sugg[k] # slug
                  /\ FirstReason(sugg[k], call.occupied) = "none"
                  /\ Normalise(sugg[k]) = sugg[k]
            /\ (/\ call.out.reason = "reserved"
                /\ \E i \in 1..99 : FirstReason(slug \o IntToStr(i), call.occupied) = "none")
               => sugg # << >>

\* "acme" was checked while tenants hold "acme" and "acme1": the suggestions
\* start at "acme2"
C22_Witness ==
    /\ call.fn = "check_subdomain"
    /\ call.input = Acme
    /\ call.out.reason = "taken"
    /\ Acme \o <<"1">> \in call.occupied
    /\ Len(call.out.suggestions) = 5
    /\ call.out.suggestions[1] = Acme \o <<"2">>

\* the place of a candidate in the order numeric 1..99, then the qualifier
\* list; 0 when it is neither
CandidateRank(base, c) ==
    IF \E i \in 1..99 : c = base \o IntToStr(i)
    THEN CHOOSE i \in 1..99 : c = base \o IntToStr(i)
    ELSE IF \E k \in 1..Len(qualifiers) : c = base \o <<"-">> \o qualifiers[k]
    THEN 99 + (CHOOSE k \in 1..Len(qualifiers) : c = base \o <<"-">> \o qualifiers[k])
    ELSE 0

\* the suggestions of an answer are in candidate order
SuggestionsOrdered(c) ==
    LET base == IF c.out.reason = "invalid_format" THEN _slugify(c.input) ELSE Normalise(c.input)
        sugg == c.out.suggestions
    IN  /\ \A k \in 1..Len(sugg) : CandidateRank(base, sugg[k]) > 0
        /\ \A k \in 1..Len(sugg) - 1 : CandidateRank(base, sugg[k]) < CandidateRank(base, sugg[k + 1])

\* C23: a call of check_subdomain that repeats the input of the call before it,
\* with the same occupied and reserved slugs, returns the same availability,
\* reason and suggestions; and the suggestions of every answer list numeric
\* suffixes in ascending order before the qualifiers in their list order
C23_SuggestionsStable ==
    [][ (call' # call /\ call'.fn = "check_subdomain") =>
            /\ SuggestionsOrdered(call')
            /\ (/\ call.fn = "check_subdomain"
                /\ call'.input = call.input
                /\ call'.occupied = call.occupied
                /\ settings' = settings)
               => call'.out = call.out
      ]_vars

\* "acme" checked twice while it is taken and acme1..acme97 are reserved: the
\* answer lists the two free numbered variants, then qualifiers
C23_Witness ==
    /\ call.fn = "check_subdomain"
    /\ call.seq = 2
    /\ call.input = Acme
    /\ call.out.suggestions =
          << Acme \o <<"9","8">>, Acme \o <<"9","9">>, Acme \o <<"-","h","q">>,
             Acme \o <<"-","e","r","p">>, Acme \o <<"-","a","p","p">> >>

\* ------------------------------------------------------------------------
\* Subscription resolution (C24), checked under SubSpec
\* ------------------------------------------------------------------------

\* C24: an explicitly given subscription is accepted only when it exists,
\* belongs to the requesting customer and is Active, and each of the three
\* failures has its own reason; with no id given the customer's most recently
\* created Active subscription is selected, and the absence of one has a
\* fourth reason
C24_SubscriptionResolution ==
    call.fn = "_validate_subscription" =>
        LET rows == call.rows
            sid == call.input
            mine == { s \in DOMAIN rows : SubOwner[s] = call.user /\ rows[s] = "Active" }
            verdict == call.out[1]
            chosen == call.out[2]
        IN  IF sid # ""
            THEN /\ verdict = "ok" <=> (sid \in DOMAIN rows /\ SubOwner[sid] = call.user /\ rows[sid] = "Active")
                 /\ verdict = "ok" => chosen = sid
                 /\ sid \notin DOMAIN rows => verdict = "not_found"
                 /\ (sid \in DOMAIN rows /\ SubOwner[sid] # call.user) => verdict = "not_owner"
                 /\ (sid \in DOMAIN rows /\ SubOwner[sid] = call.user /\ rows[sid] # "Active")
                       => verdict = "not_active"
            ELSE /\ verdict = "ok" <=> mine # {}
                 /\ mine = {} => verdict = "no_active_subscription"
                 /\ mine # {} => /\ chosen \in mine
                                 /\ \A t \in mine : SubCreated[t] <= SubCreated[chosen]

\* no id was given while the customer holds two Active subscriptions: the
\* younger one was selected
C24_Witness ==
    /\ call.fn = "_validate_subscription"
    /\ call.input = ""
    /\ call.user = USER1
    /\ call.rows = [s \in {SUB1, SUB2} |-> "Active"]
    /\ call.out = <<"ok", SUB2>>

\* ------------------------------------------------------------------------
\* Plan downgrade (C25), checked under PlanSpec
\* ------------------------------------------------------------------------

\* the tenants of a subscription outside Deleted, Failed and Suspended
Unsuspended(cs, sub) ==
    { c \in DOMAIN cs : cs[c].subscription_id = sub
                        /\ cs[c].status \notin {"Deleted", "Failed", "Suspended"} }

\* C25: after a plan change to max_companies = M at most M tenants of the
\* subscription are outside Deleted, Failed and Suspended, those left are the
\* M oldest of the ones that were, and nothing is suspended when there were
\* at most M
C25_DowngradeKeepsOldest ==
    [][ \A sub \in Subscriptions :
          planMax'[sub] # planMax[sub] =>
            LET M == MaxCompanies(planMax'[sub])
                before == Unsuspended(companies, sub)
                after == Unsuspended(companies', sub)
            IN  /\ Cardinality(after) <= M
                /\ Cardinality(before) > M => after = FirstN(before, M)
                /\ Cardinality(before) <= M => companies' = companies
      ]_vars

\* ------------------------------------------------------------------------
\* Backup and restore (C26..C28), checked under BackupSpec
\* ------------------------------------------------------------------------

\* C26: the Backup row exists with status In Progress while the backup command
\* runs; when the command exits zero with a parsable file reference the row
\* ends Completed with a file reference and a size >= 0, and when it exits
\* non-zero the row ends Failed with no file reference
C26_BackupRecordFollowsCommand ==
    [][ /\ \A j \in running : (j.fn = "run_backup" /\ j.pc = "backup") =>
              /\ j.backup_id \in DOMAIN backups
              /\ backups[j.backup_id].status = "In Progress"
        /\ \A id \in 1..MaxBackupJobs, size \in FileSizes :
              /\ BackupReturns(id, "ok_parsable", size) =>
                    LET b == backups'[RunningJob(id).backup_id] IN
                    b.status = "Completed" /\ b.file_url # "" /\ b.file_size_mb >= 0
              /\ BackupReturns(id, "err", size) =>
                    LET b == backups'[RunningJob(id).backup_id] IN
                    b.status = "Failed" /\ b.file_url = ""
      ]_vars

\* the commands of one kind running against the instance of tenant cid
CommandsRunning(cid, pc) == { j \in running : j.company_id = cid /\ j.pc = pc }

\* C27: for any tenant at most one backup and at most one restore is in
\* flight: a second create_backup or restore_backup request made while one is
\* queued or running starts no second backup or restore command on the
\* tenant's instance while the first one runs
C27_NoOverlappingBackupOrRestore ==
    \A cid \in 1..MaxTenants :
        /\ Cardinality(CommandsRunning(cid, "backup")) <= 1
        /\ Cardinality(CommandsRunning(cid, "restore")) <= 1

\* C28: run_restore issues no command when the Backup row has an empty file
\* reference and otherwise (the tenant existing) issues the restore command;
\* the migration command is issued only after the restore command exited zero;
\* the owner is notified of the failure when the restore command did not
\* succeed and of the success once a restore that did has been migrated
C28_RestoreCommandsAndNotices ==
    [][ /\ (RestoreStart /\ Head(queue).company_id \in Ids) =>
              LET j == Head(queue)
                  started == { k \in running' : k.id = j.id }
              IN  IF backups[j.backup_id].file_url = ""
                  THEN started = {}
                  ELSE \E k \in started : k.cmds = << <<"restore", companies[j.company_id].site_name,
                                                        backups[j.backup_id].file_url>> >>
        /\ \A id \in 1..MaxBackupJobs :
              /\ (\E k \in running' : k.id = id /\ k.pc = "migrate")
                  => \/ \E k \in running : k.id = id /\ k.pc = "migrate"
                     \/ RestoreReturns(id, "ok")
              /\ \A res \in RestoreResults :
                    /\ (RestoreReturns(id, res) /\ res # "ok")
                          => resp' = _notify_user(RunningJob(id).company_id, FALSE)
                    /\ MigrateReturns(id, res)
                          => resp' = _notify_user(RunningJob(id).company_id, TRUE)
      ]_vars

\* the same without the runs in which a command outlives its 600 s
C28_RestoreWithoutTimeouts ==
    [][ /\ (RestoreStart /\ Head(queue).company_id \in Ids) =>
              LET j == Head(queue)
                  started == { k \in running' : k.id = j.id }
              IN  IF backups[j.backup_id].file_url = ""
                  THEN started = {}
                  ELSE \E k \in started : k.cmds = << <<"restore", companies[j.company_id].site_name,
                                                        backups[j.backup_id].file_url>> >>
        /\ \A id \in 1..MaxBackupJobs :
              /\ (\E k \in running' : k.id = id /\ k.pc = "migrate")
                  => \/ \E k \in running : k.id = id /\ k.pc = "migrate"
                     \/ RestoreReturns(id, "ok")
              /\ RestoreReturns(id, "err") => resp' = _notify_user(RunningJob(id).company_id, FALSE)
              /\ \A res \in {"ok", "err"} :
                    MigrateReturns(id, res) => resp' = _notify_user(RunningJob(id).company_id, TRUE)
      ]_vars

\* ------------------------------------------------------------------------
\* provisioning_notes and retried jobs
\* ------------------------------------------------------------------------

IsPrefix(a, b) == Len(a) <= Len(b) /\ SubSeq(b, 1, Len(a)) = a

\* C29: provisioning_notes is append-only: for every operation and every tenant
\* that exists before and after it, the notes before the operation are a prefix
\* of the notes after it
C29_NotesAppendOnly ==
    [][\A c \in DOMAIN companies \cap DOMAIN companies' :
          IsPrefix(companies[c].provisioning_notes, companies'[c].provisioning_notes)]_vars

\* the job a retry endpoint has just put on the queue, for a tenant whose
\* creation request was accepted with the module list `apps`
RetryEnqueued(k, apps) ==
    /\ \E r \in DOMAIN req : req[r].op \in {"retry_failed", "retry_prov"} /\ req'[r] = Idle
                               /\ req[r].cid = k.company_id
    /\ queue' = Append(queue, k)
    /\ apps \in AppInputs

\* C30: the job enqueued by an accepted retry carries the parameters of the
\* creation request: the site name, admin email and admin password stored with
\* the tenant at creation (as long as the tenant exists), and the module list the creation request carried
C30_RetryKeepsParameters ==
    [][\A apps \in AppInputs :
         queue' # << >> /\ RetryEnqueued(queue'[Len(queue')], apps)
         => LET k == queue'[Len(queue')]
            IN  /\ k.company_id \in DOMAIN companies'
                   => LET doc == companies'[k.company_id]
                      IN  /\ k.site_name = doc.site_name
                          /\ k.admin_email = doc.admin_email
                          /\ k.admin_password = doc.admin_password
                /\ k.apps_to_install = apps]_vars

\* the retried job keeps the site name, admin email and admin password
C30_RetryKeepsCredentials ==
    [][\A apps \in AppInputs :
         queue' # << >> /\ RetryEnqueued(queue'[Len(queue')], apps)
         => LET k == queue'[Len(queue')]
            IN  /\ k.company_id \in DOMAIN companies'
                   => LET doc == companies'[k.company_id]
                      IN  /\ k.site_name = doc.site_name
                          /\ k.admin_email = doc.admin_email
                          /\ k.admin_password = doc.admin_password]_vars

\* ------------------------------------------------------------------------
\* Progress of the provisioning pipeline (C33): one tenant, its creation and
\* its retries, with workers that keep running and commands that return or
\* time out
\* ------------------------------------------------------------------------

\* the worker takes the next job of the queue
WorkerTakesJob == \E ok \in BOOLEAN, mail \in BOOLEAN : JobStart(ok, mail)

\* the create command of job id returns or times out
CreateCommandEnds(id) ==
    \E res \in {"ok", "err", "lock", "timeout"}, stale \in BOOLEAN, mail \in BOOLEAN :
        CreateReturns(id, res, stale, mail)

\* the install command of job id returns or times out
InstallCommandEnds(id) ==
    \E res \in {"ok", "err", "timeout"}, mail \in BOOLEAN : InstallReturns(id, res, mail)

\* a request handler that has read the record goes on to its commit and enqueue
HandlerCommits ==
    \E r \in 1..MaxReq, ok \in BOOLEAN :
        CreateCommit(r, ok) \/ RetryFailedCommit(r, ok) \/ RetryProvisioningCommit(r, ok)

ProgressNext ==
    \/ \E sd \in SlugInputs, name \in NameInputs, sub \in SubInputs, apps \in AppInputs :
          nextId = 1 /\ PendingInserts = 0 /\ CreateBegin(1, sd, name, sub, apps)
    \/ \E r \in 1..MaxReq : RetryFailedBegin(r, 1)
    \/ \E r \in 1..MaxReq : RetryProvisioningBegin(r, 1)
    \/ HandlerCommits
    \/ SuspendCompanyManage(1)
    \/ ReactivateCompany(1)
    \/ \E sub \in Subscriptions, st \in SubscriptionStatus : SubscriptionSave(sub, st)
    \/ \E drop \in BOOLEAN, res \in DropResults : DeleteCompany(1, drop, res)
    \/ WorkerTakesJob
    \/ \E id \in 1..MaxJobs : CreateCommandEnds(id)
    \/ \E id \in 1..MaxJobs : InstallCommandEnds(id)
    \/ \E id \in 1..MaxJobs, stale \in BOOLEAN : OrphanExit(id, stale)
    \/ Return

\* A response in flight is delivered; a worker step or a handler's commit is
\* disabled only while a response is in flight, so a step that is enabled
\* again and again is taken (strong fairness): requests arriving in between
\* do not stop a worker or a command
ProgressSpec ==
    /\ Init
    /\ [][ProgressNext]_vars
    /\ SF_vars(WorkerTakesJob)
    /\ \A id \in 1..MaxJobs : SF_vars(CreateCommandEnds(id)) /\ SF_vars(InstallCommandEnds(id))
    /\ SF_vars(HandlerCommits)
    /\ WF_vars(Return)

\* ------------------------------------------------------------------------
\* Lifecycle transitions (C31, C32, C35, C36)
\* ------------------------------------------------------------------------

\* C31: a suspend request (either suspend_company endpoint) on a tenant whose
\* status is not Active is rejected and leaves the tenant records unchanged
C31_SuspendOnlyFromActive ==
    [][\A cid \in 1..MaxTenants :
          /\ cid \in Ids
          /\ companies[cid].status # "Active"
          /\ SuspendCompanyManage(cid) \/ SuspendCompanyService(cid)
          => UNCHANGED companies]_vars

\* C32: delete_company removes only a tenant in status Active or Failed, and
\* every provisioning job a worker is executing belongs to a tenant record
\* that is still stored
C32_DeleteOnlyActiveOrFailed ==
    [][ /\ \A j \in running : j.company_id \in Ids
        /\ \A cid \in 1..MaxTenants :
              (cid \in Ids /\ cid \notin DOMAIN companies')
              => companies[cid].status \in {"Active", "Failed"}
      ]_vars

\* a provisioning job of tenant c is on the queue or with a worker
JobPending(c) == JobsOf(c) > 0

\* C33: every tenant whose provisioning job has been enqueued (it is Queued or
\* Provisioning and a job of it is on the queue or with a worker) eventually is
\* Active or Failed, unless its record is removed first, when workers keep
\* running and every command returns or times out
C33_PendingJobEnds ==
    \A c \in 1..MaxTenants :
        (c \in Ids /\ companies[c].status \in {"Queued", "Provisioning"} /\ JobPending(c))
        ~> (c \notin Ids \/ companies[c].status \in {"Active", "Failed"})

\* the same without a job: a tenant left Queued or Provisioning by a retry
\* whose frappe.enqueue raised has no job and stays as it is
C33_EveryRetryEnds ==
    \A c \in 1..MaxTenants :
        (c \in Ids /\ companies[c].status \in {"Queued", "Provisioning"})
        ~> (c \notin Ids \/ companies[c].status \notin {"Queued", "Provisioning"})

\* a job ended by the timeout of its command: the tenant is Failed with the
\* timeout text in its notes and no job is left
C33_Witness ==
    \E c \in Ids :
        /\ companies[c].status = "Failed"
        /\ ContainsText(companies[c].provisioning_notes, "timed out after 300 seconds")
        /\ ~ JobPending(c)

\* ------------------------------------------------------------------------
\* App marketplace (C34), checked under MarketSpec
\* ------------------------------------------------------------------------

ProgressStatus == {"queued", "installing", "migrating", "completed", "failed"}

\* C34: the progress record of every install, uninstall or update job has a
\* status among queued, installing, migrating, completed and failed, and a
\* failed record carries error text
C34_ProgressStatusKnown ==
    \A k \in DOMAIN cache :
        /\ cache[k].status \in ProgressStatus
        /\ cache[k].status = "failed" => cache[k].error # ""

\* the statuses are those five or migration_failed
C34_ProgressStatusOrMigrationFailed ==
    \A k \in DOMAIN cache : cache[k].status \in ProgressStatus \cup {"migration_failed"}

\* ------------------------------------------------------------------------
\* Active only after provisioning (C35), Suspended during provisioning (C36)
\* ------------------------------------------------------------------------

\* some provisioning run of tenant c got through the create step: the job has
\* written db_name (line 62), which nothing resets
CreatedOnce(c) == companies[c].db_name # << >>

\* C35: a tenant is Active only if some provisioning run for it completed the
\* create step: no suspend followed by reactivate or activate makes a tenant
\* Active that was never provisioned
C35_ActiveOnlyAfterCreate ==
    \A c \in Ids : companies[c].status = "Active" => CreatedOnce(c)

\* a job ends in this step
JobEnds == \E j \in running : j \notin running'

\* C36: the completion of a provisioning job does not turn a Suspended tenant
\* Active, and does not turn a tenant Active whose subscription is neither
\* Active nor Trial (it became inactive while the tenant was Queued)
C36_JobKeepsSuspended ==
    [][\A c \in 1..MaxTenants :
          (JobEnds /\ c \in Ids /\ c \in DOMAIN companies'
             /\ companies[c].status # "Active" /\ companies'[c].status = "Active")
          => /\ companies[c].status # "Suspended"
             /\ subStatus[companies[c].subscription_id] \in {"Active", "Trial"}]_vars

\* the same for the first half alone
C36_JobNeverActivatesSuspended ==
    [][\A c \in 1..MaxTenants :
          (JobEnds /\ c \in Ids /\ c \in DOMAIN companies'
             /\ companies[c].status = "Suspended")
          => companies'[c].status # "Active"]_vars

\* the same for the second half alone
C36_JobNeverActivatesUnderInactive ==
    [][\A c \in 1..MaxTenants :
          (JobEnds /\ c \in Ids /\ c \in DOMAIN companies'
             /\ companies[c].status = "Provisioning" /\ companies'[c].status = "Active")
          => subStatus[companies[c].subscription_id] \in {"Active", "Trial"}]_vars

\* ------------------------------------------------------------------------
\* Backup and restore (C37, C38), checked under BackupSpec
\* ------------------------------------------------------------------------

\* C37: a restore command running against the instance of tenant T uses a
\* Backup row whose tenant id is T: restore_backup(T, B) with a backup B of
\* another tenant starts no restore command
C37_RestoreUsesOwnBackup ==
    \A j \in running :
        j.fn = "run_restore" => backups[j.backup_id].company_id = j.company_id

\* C38: a Backup row only moves from In Progress to Completed or to Failed: a
\* Completed or Failed row is not changed again, a row that run_backup has
\* given a file reference (which it writes together with Completed) does not
\* end Failed, and every Completed row has a non-empty file reference
C38_BackupStatusMovesOnce ==
    [][\A b \in DOMAIN backups :
          /\ backups[b].status \in {"Completed", "Failed"} => backups'[b] = backups[b]
          /\ backups'[b].status = "Failed" => backups'[b].file_url = ""
          /\ backups'[b].status = "Completed" => backups'[b].file_url # ""]_vars

\* a Completed or Failed row is not changed again
C38_EndedRowsStay ==
    [][\A b \in DOMAIN backups :
          backups[b].status \in {"Completed", "Failed"} => backups'[b] = backups[b]]_vars

\* ------------------------------------------------------------------------
\* The two slug validations (C39), checked under DomainSpec
\* ------------------------------------------------------------------------

C39_ValidationsAgreeAtDefaultLength ==
    settings.max_len = MaxSubdomainLen
    => \A sd \in DomainInputs :
          (_validate_subdomain(sd) = "ok") <=> check_subdomain(sd).available

\* C40: no two tenants whose status is outside {Deleted, Failed} have the
\* same site_name: a rename never gives a tenant the site name of another
\* live tenant, also when that tenant is still Queued or Provisioning and its
\* instance directory does not exist yet
C40_UniqueLiveSiteName ==
    \A a, b \in Ids :
        a # b /\ Live(a) /\ Live(b) => companies[a].site_name # companies[b].site_name

\* the rename step alone: it never writes a site name that another live
\* tenant has
C40_RenameKeepsSiteNamesApart ==
    [][\A cid \in 1..MaxTenants :
         cid \in Ids /\ cid \in DOMAIN companies' /\ companies'[cid].site_name # companies[cid].site_name
         => ~ \E o \in Ids : o # cid /\ Live(o) /\ companies[o].site_name = companies'[cid].site_name]_vars

====
